---- MODULE Spec2Model ----
(***************************************************************************)
(* The Evan sample controller (controller/controller.go): informer caches, *)
(* the rate limited work queue, the worker loop (processNextWorkItem) and  *)
(* the converge pass (syncHandler), against a backing store that external  *)
(* actors edit concurrently.                                               *)
(*                                                                         *)
(* Representation.  A work queue key "ns/name" is the sequence of its      *)
(* "/"-separated parts, <<ns, name>>.  Object names are strings, built by  *)
(* concatenation as fmt.Sprintf builds them.  A Go pointer that may be nil *)
(* (an int32 pointer) is an integer, NilInt32 for nil.  A typed client call *)
(* that fails returns the zero value of its result type, as client-go does.*)
(***************************************************************************)
EXTENDS Integers, Sequences, FiniteSets, TLC

\* ------------------------------------------------------------------ bounds
NumWorkers == 2       \* size of the worker pool handed to Run
MaxExternal == 2      \* external events (edits, faults, the stop) per behaviour
MaxFailures == 2      \* the per item failure count saturates here
MaxReplicas == 2      \* the largest replica count asked for or reported

\* ------------------------------------------------------- program constants
NilInt32 == -1        \* a nil *int32 (DeploymentConfig.Replicas unset)

Namespace == "default"
KindEvan == "Evan"
PolicyWipeOut == "WipeOut"
PolicyDelete == "Delete"
ErrResourceExists == "ErrResourceExists"
EventTypeWarning == "Warning"

Workers == 1 .. NumWorkers
Kinds == {"Deployment", "Service", "Evan"}

\* ------------------------------------------------------------ pure helpers
Digit(d) == <<"0", "1", "2", "3", "4", "5", "6", "7", "8", "9">>[d + 1]

RECURSIVE FormatNat(_)
FormatNat(n) == IF n < 10 THEN Digit(n) ELSE FormatNat(n \div 10) \o Digit(n % 10)

\* strconv.FormatInt(i, 10)
FormatInt(i) == IF i < 0 THEN "-" \o FormatNat(0 - i) ELSE FormatNat(i)

\* a faulty generateDeploymentName: the override is left out of the name
generateDeploymentNameNoOverride(evanName, evanDeploymentName, resourceCreationTimestamp) ==
    evanName \o "-" \o FormatInt(resourceCreationTimestamp)

generateDeploymentName(evanName, evanDeploymentName, resourceCreationTimestamp) ==
    IF evanDeploymentName = ""
    THEN evanName \o "-" \o FormatInt(resourceCreationTimestamp)
    ELSE evanName \o "-" \o evanDeploymentName \o "-" \o FormatInt(resourceCreationTimestamp)

generateServiceName(evanName, evanServiceName, resourceCreationTimestamp) ==
    IF evanServiceName = ""
    THEN evanName \o "-" \o FormatInt(resourceCreationTimestamp)
    ELSE evanName \o "-" \o evanServiceName \o "-" \o FormatInt(resourceCreationTimestamp)

isReplicasChanged(evanReplicas, deploymentReplicas) ==
    evanReplicas # 0 /\ evanReplicas # deploymentReplicas

isDeploymentNameChanged(evanDeploymentName, deploymentName) ==
    evanDeploymentName # "" /\ evanDeploymentName # deploymentName

\* a faulty image predicate: the current image is not looked at
isDeploymentImageChangedAlways(evanDeploymentImage, deploymentImage) ==
    evanDeploymentImage # ""

isDeploymentImageChanged(evanDeploymentImage, deploymentImage) ==
    evanDeploymentImage # "" /\ evanDeploymentImage # deploymentImage

isServiceNameChanged(evanServiceName, serviceName) ==
    evanServiceName # "" /\ evanServiceName # serviceName

\* a faulty port predicate: a changed port is never seen
isServicePortChangedNever(evanServicePort, servicePort) == FALSE

isServicePortChanged(evanServicePort, servicePort) ==
    evanServicePort # 0 /\ evanServicePort # servicePort

\* cache.MetaNamespaceKeyFunc: "namespace/name", or "name" without a namespace
MetaNamespaceKeyFunc(obj) ==
    IF obj.namespace # "" THEN <<obj.namespace, obj.name>> ELSE <<obj.name>>

\* A work item that is a string is modelled by the parts its text has between
\* slashes, of which there is at least one; an item of another type has no
\* text and is the empty tuple.  This is the type assertion obj.(string) of
\* processNextWorkItem.
IsString(obj) == Len(obj) >= 1

\* cache.SplitMetaNamespaceKey: one part is a name, two are namespace and name,
\* anything else is an error
SplitMetaNamespaceKey(key) ==
    IF Len(key) = 1 THEN [namespace |-> "", name |-> key[1], err |-> FALSE]
    ELSE IF Len(key) = 2 THEN [namespace |-> key[1], name |-> key[2], err |-> FALSE]
    ELSE [namespace |-> "", name |-> "", err |-> TRUE]

\* metav1.NewControllerRef(Evan, ...WithKind("Evan"))
NewControllerRef(Evan) ==
    [kind |-> KindEvan, name |-> Evan.name, uid |-> Evan.uid, controller |-> TRUE]

\* metav1.GetControllerOf: the owner reference flagged controller, as a
\* sequence of at most one element
GetControllerOf(obj) ==
    SelectSeq(obj.ownerReferences, LAMBDA r : r.controller)

\* metav1.IsControlledBy
IsControlledBy(obj, owner) ==
    LET ref == GetControllerOf(obj)
    IN  Len(ref) > 0 /\ ref[1].uid = owner.uid

\* zero values of the object types
ZeroEvan ==
    [name |-> "", namespace |-> "", uid |-> 0, resourceVersion |-> 0,
     creationTimestamp |-> 0,
     spec |-> [deploymentConfig |-> [name |-> "", replicas |-> NilInt32, image |-> ""],
               serviceConfig |-> [name |-> "", type |-> "", port |-> 0,
                                  targetPort |-> 0, nodePort |-> 0],
               deletionPolicy |-> ""],
     status |-> [availableReplicas |-> 0]]

ZeroDeployment ==
    [name |-> "", namespace |-> "", resourceVersion |-> 0, ownerReferences |-> <<>>,
     replicas |-> NilInt32, containers |-> <<>>, availableReplicas |-> 0]

ZeroService ==
    [name |-> "", namespace |-> "", resourceVersion |-> 0, ownerReferences |-> <<>>,
     type |-> "", ports |-> <<>>]

newDeployment(Evan, deploymentName) ==
    [ZeroDeployment EXCEPT
        !.name = deploymentName,
        !.namespace = Evan.namespace,
        !.replicas = Evan.spec.deploymentConfig.replicas,
        !.containers = <<[image |-> Evan.spec.deploymentConfig.image,
                          containerPort |-> Evan.spec.serviceConfig.port]>>]

newService(Evan, serviceName, serviceTargetPort) ==
    [ZeroService EXCEPT
        !.name = serviceName,
        !.namespace = Evan.namespace,
        !.type = Evan.spec.serviceConfig.type,
        !.ports = <<[port |-> Evan.spec.serviceConfig.port,
                     targetPort |-> serviceTargetPort,
                     nodePort |-> Evan.spec.serviceConfig.nodePort]>>]

\* --------------------------------------------------------------- variables
VARIABLES
    evanStore,      \* backing store: Evan objects by name (one namespace)
    deplStore,      \* backing store: Deployments by name
    svcStore,       \* backing store: Services by name
    lastRv,         \* the last resourceVersion the store has issued
    ext,            \* external events so far
    evanCache,      \* evansLister: the Evan informer's cache
    deplCache,      \* deploymentsLister: the Deployment informer's cache
    svcCache,       \* serviceLister: the Service informer's cache
    synced,         \* the kinds whose informer reports HasSynced
    workqueue,      \* Controller.workqueue
    runPc,          \* where Run is
    ctxDone,        \* ctx.Done() is closed
    workers,        \* Run's argument: how many workers it starts
    pc,             \* where each worker is
    loc,            \* each worker's local variables
    crashed,        \* a panic has taken the process down
    events,         \* what the event recorder was given
    calls,          \* per worker: the store calls of the pass in hand
    book,           \* per worker: the queue call that followed syncHandler
    idem            \* per key: progress of a pair of undisturbed passes

storeVars == <<evanStore, deplStore, svcStore, lastRv, ext>>
cacheVars == <<evanCache, deplCache, svcCache, synced>>
runVars == <<runPc, ctxDone, workers>>
workerVars == <<pc, loc, crashed, events, calls, book>>
vars == <<storeVars, cacheVars, workqueue, runVars, workerVars, idem>>

\* ------------------------------------------------------------- work queue
\* Controller.workqueue is client-go's rate limiting queue: queue holds the
\* items to hand out in order, dirty the items that need processing,
\* processing the items handed out and not yet Done, failures the per item
\* failure count of the exponential limiter, waiting the items AddAfter holds
\* back until their delay is over.  collapsed is history, not queue state: the
\* items for which an Add found the item dirty already, since the item was
\* last handed out.
NewRateLimitingQueue ==
    [queue |-> <<>>, dirty |-> {}, processing |-> {}, shuttingDown |-> FALSE,
     failures |-> <<>>, waiting |-> {}, collapsed |-> {}]

Add(q, item) ==
    IF q.shuttingDown THEN q
    ELSE IF item \in q.dirty THEN [q EXCEPT !.collapsed = @ \cup {item}]
    ELSE IF item \in q.processing THEN [q EXCEPT !.dirty = @ \cup {item}]
    ELSE [q EXCEPT !.dirty = @ \cup {item}, !.queue = Append(@, item)]

\* Get on a non-empty queue: the head is handed out
GetItem(q) ==
    [q EXCEPT !.queue = Tail(@),
              !.processing = @ \cup {Head(q.queue)},
              !.dirty = @ \ {Head(q.queue)},
              !.collapsed = @ \ {Head(q.queue)}]

Done(q, item) ==
    IF item \in q.dirty
    THEN [q EXCEPT !.processing = @ \ {item}, !.queue = Append(@, item)]
    ELSE [q EXCEPT !.processing = @ \ {item}]

NumRequeues(q, item) ==
    IF item \in DOMAIN q.failures THEN q.failures[item] ELSE 0

Forget(q, item) ==
    [q EXCEPT !.failures = [i \in DOMAIN q.failures \ {item} |-> q.failures[i]]]

\* AddRateLimited(item) is AddAfter(item, rateLimiter.When(item)): When counts
\* the failure (here up to MaxFailures) and gives a delay of at least the base
\* delay, so the item waits; AddAfter drops it when the queue is shutting down.
AddRateLimited(q, item) ==
    LET n == NumRequeues(q, item)
        counted == [q EXCEPT !.failures =
                      [i \in DOMAIN q.failures \cup {item} |->
                         IF i = item THEN (IF n < MaxFailures THEN n + 1 ELSE n)
                         ELSE q.failures[i]]]
    IN  IF q.shuttingDown THEN counted
        ELSE [counted EXCEPT !.waiting = @ \cup {item}]

ShutDown(q) == [q EXCEPT !.shuttingDown = TRUE]

\* ------------------------------------------------------- stores and caches
Put(f, k, v) == [i \in DOMAIN f \cup {k} |-> IF i = k THEN v ELSE f[i]]
Del(f, k) == [i \in DOMAIN f \ {k} |-> f[i]]

\* the cached copy is the stored object in its current version (the store
\* issues every resourceVersion once)
Fresh(cache, store, n) ==
    /\ (n \in DOMAIN cache) = (n \in DOMAIN store)
    /\ n \in DOMAIN store => cache[n].resourceVersion = store[n].resourceVersion

EvanKey(n) == <<Namespace, n>>

\* every cache holds exactly what the store holds, field by field
Consistent ==
    /\ evanCache = evanStore
    /\ deplCache = deplStore
    /\ svcCache = svcStore

\* ------------------------------------------------------------ event router
\* a faulty enqueueEvan: the key is appended to a plain list of work
enqueueEvanAppend(q, obj) ==
    [q EXCEPT !.queue = Append(@, MetaNamespaceKeyFunc(obj)),
              !.dirty = @ \cup {MetaNamespaceKeyFunc(obj)}]

\* Controller.enqueueEvan
enqueueEvan(q, obj) == Add(q, MetaNamespaceKeyFunc(obj))

\* a faulty handleObject: the kind of the controlling owner is not looked at
handleObjectAnyKind(q, object) ==
    LET ownerRef == GetControllerOf(object)
    IN  IF Len(ownerRef) = 0 THEN q
        ELSE IF ownerRef[1].name \notin DOMAIN evanCache THEN q
        ELSE Add(q, MetaNamespaceKeyFunc(evanCache[ownerRef[1].name]))

\* Controller.handleObject, for an object that is a metav1.Object
handleObject(q, object) ==
    LET ownerRef == GetControllerOf(object)
    IN  IF Len(ownerRef) = 0 THEN q
        ELSE IF ownerRef[1].kind # KindEvan THEN q
        ELSE IF ownerRef[1].name \notin DOMAIN evanCache THEN q
        ELSE enqueueEvan(q, evanCache[ownerRef[1].name])

\* ---------------------------------------------------------- external world
ResetIdem == [k \in DOMAIN idem |-> [phase |-> 0, depl |-> <<>>, svc |-> <<>>]]

External ==
    /\ ~crashed
    /\ ext < MaxExternal
    /\ ext' = ext + 1
    /\ idem' = ResetIdem
    /\ UNCHANGED <<cacheVars, workqueue, runVars, workerVars>>

\* the author creates a parent
AuthorCreate(n, spec, ts) ==
    /\ External
    /\ n \notin DOMAIN evanStore
    /\ evanStore' = Put(evanStore, n,
                        [ZeroEvan EXCEPT !.name = n, !.namespace = Namespace,
                                         !.uid = lastRv + 1,
                                         !.resourceVersion = lastRv + 1,
                                         !.creationTimestamp = ts, !.spec = spec])
    /\ lastRv' = lastRv + 1
    /\ UNCHANGED <<deplStore, svcStore>>

\* the author edits a parent's spec
AuthorUpdate(n, spec) ==
    /\ External
    /\ n \in DOMAIN evanStore
    /\ evanStore[n].spec # spec
    /\ evanStore' = [evanStore EXCEPT ![n].spec = spec,
                                      ![n].resourceVersion = lastRv + 1]
    /\ lastRv' = lastRv + 1
    /\ UNCHANGED <<deplStore, svcStore>>

\* the author deletes a parent
AuthorDelete(n) ==
    /\ External
    /\ n \in DOMAIN evanStore
    /\ evanStore' = Del(evanStore, n)
    /\ UNCHANGED <<deplStore, svcStore, lastRv>>

\* somebody else creates a Deployment, with no owner reference
ExternalCreateDeployment(name, replicas, image) ==
    /\ External
    /\ name \notin DOMAIN deplStore
    /\ deplStore' = Put(deplStore, name,
                        [ZeroDeployment EXCEPT
                            !.name = name, !.namespace = Namespace,
                            !.resourceVersion = lastRv + 1, !.replicas = replicas,
                            !.containers = <<[image |-> image, containerPort |-> 0]>>])
    /\ lastRv' = lastRv + 1
    /\ UNCHANGED <<evanStore, svcStore>>

\* the Deployment controller reports how many replicas are available
DeploymentStatus(name, available) ==
    /\ External
    /\ name \in DOMAIN deplStore
    /\ deplStore[name].availableReplicas # available
    /\ available <= deplStore[name].replicas
    /\ deplStore' = [deplStore EXCEPT ![name].availableReplicas = available,
                                      ![name].resourceVersion = lastRv + 1]
    /\ lastRv' = lastRv + 1
    /\ UNCHANGED <<evanStore, svcStore>>

\* somebody else creates a Deployment or a Service with owner references of
\* their choice
ExternalCreateChild(kind, name, ownerReferences) ==
    /\ External
    /\ lastRv' = lastRv + 1
    /\ \/ /\ kind = "Deployment"
          /\ name \notin DOMAIN deplStore
          /\ deplStore' = Put(deplStore, name,
                              [ZeroDeployment EXCEPT
                                  !.name = name, !.namespace = Namespace,
                                  !.resourceVersion = lastRv + 1, !.replicas = 1,
                                  !.ownerReferences = ownerReferences,
                                  !.containers = <<[image |-> "img:1", containerPort |-> 0]>>])
          /\ UNCHANGED <<evanStore, svcStore>>
       \/ /\ kind = "Service"
          /\ name \notin DOMAIN svcStore
          /\ svcStore' = Put(svcStore, name,
                             [ZeroService EXCEPT
                                 !.name = name, !.namespace = Namespace,
                                 !.resourceVersion = lastRv + 1,
                                 !.ownerReferences = ownerReferences])
          /\ UNCHANGED <<evanStore, deplStore>>

\* somebody deletes a Deployment or a Service
ExternalDeleteChild(kind, name) ==
    /\ External
    /\ \/ /\ kind = "Deployment"
          /\ name \in DOMAIN deplStore
          /\ deplStore' = Del(deplStore, name)
          /\ UNCHANGED <<evanStore, svcStore, lastRv>>
       \/ /\ kind = "Service"
          /\ name \in DOMAIN svcStore
          /\ svcStore' = Del(svcStore, name)
          /\ UNCHANGED <<evanStore, deplStore, lastRv>>

\* somebody writes the owner references of a Deployment or a Service
ExternalAdoptChild(kind, name, ownerReferences) ==
    /\ External
    /\ lastRv' = lastRv + 1
    /\ \/ /\ kind = "Deployment"
          /\ name \in DOMAIN deplStore
          /\ deplStore[name].ownerReferences # ownerReferences
          /\ deplStore' = [deplStore EXCEPT ![name].ownerReferences = ownerReferences,
                                            ![name].resourceVersion = lastRv + 1]
          /\ UNCHANGED <<evanStore, svcStore>>
       \/ /\ kind = "Service"
          /\ name \in DOMAIN svcStore
          /\ svcStore[name].ownerReferences # ownerReferences
          /\ svcStore' = [svcStore EXCEPT ![name].ownerReferences = ownerReferences,
                                          ![name].resourceVersion = lastRv + 1]
          /\ UNCHANGED <<evanStore, deplStore>>

\* --------------------------------------------------------------- informers
\* The Evan informer delivers one change of the store: the cache takes the
\* stored object and the handler registered in NewController runs (AddFunc
\* and UpdateFunc enqueue the object; no DeleteFunc is registered).
InformEvan(n) ==
    /\ ~crashed
    /\ ~Fresh(evanCache, evanStore, n)
    /\ IF n \in DOMAIN evanStore
       THEN /\ evanCache' = Put(evanCache, n, evanStore[n])
            /\ workqueue' = enqueueEvan(workqueue, evanStore[n])
       ELSE /\ evanCache' = Del(evanCache, n)
            /\ UNCHANGED workqueue
    /\ UNCHANGED <<storeVars, deplCache, svcCache, synced, runVars, workerVars, idem>>

\* The Deployment informer delivers one change: AddFunc and DeleteFunc are
\* handleObject; UpdateFunc is handleObject when the resource versions differ,
\* as they do for a change of the store.
InformDeployment(n) ==
    /\ ~crashed
    /\ ~Fresh(deplCache, deplStore, n)
    /\ IF n \in DOMAIN deplStore
       THEN /\ deplCache' = Put(deplCache, n, deplStore[n])
            /\ workqueue' = handleObject(workqueue, deplStore[n])
       ELSE /\ deplCache' = Del(deplCache, n)
            /\ workqueue' = handleObject(workqueue, deplCache[n])
    /\ UNCHANGED <<storeVars, evanCache, svcCache, synced, runVars, workerVars, idem>>

InformService(n) ==
    /\ ~crashed
    /\ ~Fresh(svcCache, svcStore, n)
    /\ IF n \in DOMAIN svcStore
       THEN /\ svcCache' = Put(svcCache, n, svcStore[n])
            /\ workqueue' = handleObject(workqueue, svcStore[n])
       ELSE /\ svcCache' = Del(svcCache, n)
            /\ workqueue' = handleObject(workqueue, svcCache[n])
    /\ UNCHANGED <<storeVars, evanCache, deplCache, synced, runVars, workerVars, idem>>

\* an informer has delivered its initial list: HasSynced turns true
HasSynced(kind) ==
    /\ ~crashed
    /\ kind \notin synced
    /\ \/ kind = "Evan" /\ \A n \in DOMAIN evanStore \cup DOMAIN evanCache :
                              Fresh(evanCache, evanStore, n)
       \/ kind = "Deployment" /\ \A n \in DOMAIN deplStore \cup DOMAIN deplCache :
                              Fresh(deplCache, deplStore, n)
       \/ kind = "Service" /\ \A n \in DOMAIN svcStore \cup DOMAIN svcCache :
                              Fresh(svcCache, svcStore, n)
    /\ synced' = synced \cup {kind}
    /\ UNCHANGED <<storeVars, evanCache, deplCache, svcCache, workqueue, runVars,
                   workerVars, idem>>

\* the delay AddAfter gave an item is over: the delaying queue adds it
DelayElapsed(item) ==
    /\ ~crashed
    /\ ~workqueue.shuttingDown
    /\ item \in workqueue.waiting
    /\ workqueue' = Add([workqueue EXCEPT !.waiting = @ \ {item}], item)
    /\ UNCHANGED <<storeVars, cacheVars, runVars, workerVars, idem>>

\* --------------------------------------------------------------------- Run
\* the process is told to stop
Cancel ==
    /\ ~crashed
    /\ ~ctxDone
    /\ ext < MaxExternal
    /\ ext' = ext + 1
    /\ ctxDone' = TRUE
    /\ UNCHANGED <<evanStore, deplStore, svcStore, lastRv, cacheVars, workqueue, runPc,
                   workers, workerVars, idem>>

\* a faulty Run that starts its workers without waiting for the caches
RunStartUngated ==
    /\ ~crashed
    /\ runPc = "WaitForCacheSync"
    /\ runPc' = "Running"
    /\ pc' = [w \in Workers |-> IF w <= workers THEN "Get" ELSE "off"]
    /\ UNCHANGED <<storeVars, cacheVars, workqueue, ctxDone, workers, loc, crashed,
                   events, calls, book, idem>>

\* Run up to the start of the workers: WaitForCacheSync returns true once
\* every informer has synced and false once ctx is done
RunStart ==
    /\ ~crashed
    /\ runPc = "WaitForCacheSync"
    /\ \/ /\ synced = Kinds
          /\ runPc' = "Running"
          /\ pc' = [w \in Workers |-> IF w <= workers THEN "Get" ELSE "off"]
          /\ UNCHANGED workqueue
       \/ /\ ctxDone
          /\ runPc' = "Failed"
          /\ workqueue' = ShutDown(workqueue)
          /\ UNCHANGED pc
    /\ UNCHANGED <<storeVars, cacheVars, ctxDone, workers, loc, crashed, events,
                   calls, book, idem>>

\* Run from <-ctx.Done() to its return: the deferred ShutDown
RunStop ==
    /\ ~crashed
    /\ runPc = "Running"
    /\ ctxDone
    /\ runPc' = "Returned"
    /\ workqueue' = ShutDown(workqueue)
    /\ UNCHANGED <<storeVars, cacheVars, ctxDone, workers, workerVars, idem>>

\* ----------------------------------------------------------------- workers
\* the local variables of processNextWorkItem and syncHandler; line is the
\* line of the return statement of syncHandler that was reached (0: none yet)
ZeroLoc ==
    [obj |-> <<>>, namespace |-> "", name |-> "", Evan |-> ZeroEvan,
     resourceCreationTimestamp |-> 0, deploymentName |-> "",
     updateDeployment |-> ZeroDeployment, deployment |-> ZeroDeployment,
     serviceName |-> "", servicePort |-> 0, serviceTargetPort |-> 0,
     updateService |-> ZeroService, service |-> ZeroService,
     err |-> "", line |-> 0]

Return(l, line, err) == [l EXCEPT !.line = line, !.err = err]

Call(op, kind, name, ok, changed) ==
    [op |-> op, kind |-> kind, name |-> name, ok |-> ok, changed |-> changed]

\* a faulty ownership check: every Deployment passes for the Evan's own
NoDeploymentConflict(l) == FALSE

\* a faulty ownership check: a Deployment nobody controls passes
DeploymentConflictOnlyForeign(l) ==
    /\ l.Evan.spec.deletionPolicy = PolicyWipeOut
    /\ Len(GetControllerOf(l.deployment)) > 0
    /\ ~IsControlledBy(l.deployment, l.Evan)

\* syncHandler line 398: the Deployment is not controlled by this Evan
DeploymentConflict(l) ==
    /\ l.Evan.spec.deletionPolicy = PolicyWipeOut
    /\ ~IsControlledBy(l.deployment, l.Evan)

\* a faulty ownership check: the deletion policy is not looked at
ServiceConflictAnyPolicy(l) == ~IsControlledBy(l.service, l.Evan)

\* syncHandler line 481: the Service is not controlled by this Evan
ServiceConflict(l) ==
    /\ l.Evan.spec.deletionPolicy = PolicyWipeOut
    /\ ~IsControlledBy(l.service, l.Evan)

\* a faulty choice of owner references: the deletion policy is not looked at
OwnerReferencesAlways(Evan) == <<NewControllerRef(Evan)>>

\* syncHandler lines 378-382 and 463-467: the owner references of the desired
\* child, which a newDeployment or newService starts without
OwnerReferencesFor(Evan) ==
    IF Evan.spec.deletionPolicy = PolicyWipeOut THEN <<NewControllerRef(Evan)>> ELSE <<>>

\* a faulty port check: no port is taken for missing
PortNeverMissing(servicePort) == FALSE

\* syncHandler line 450: the user gave no service port
ServicePortMissing(servicePort) == servicePort = 0

\* syncHandler lines 372-374: the unset deletion policy is WipeOut
DefaultDeletionPolicy(Evan) ==
    IF Evan.spec.deletionPolicy = ""
    THEN [Evan EXCEPT !.spec.deletionPolicy = PolicyWipeOut]
    ELSE Evan

\* updateevan line 518: the status to write
StatusToWrite(l) == l.updateDeployment.availableReplicas

\* syncHandler lines 425-431: where the pass goes from the image predicate
ImagePredicate(l) ==
    IF Len(l.deployment.containers) = 0 THEN "Panic"
    ELSE IF isDeploymentImageChanged(l.Evan.spec.deploymentConfig.image,
                                     l.deployment.containers[1].image)
         THEN "UpdateDeploymentImage"
         ELSE "Refetch"

\* syncHandler lines 416-422
NamePredicate(l) ==
    IF isDeploymentNameChanged(l.deploymentName, l.deployment.name)
    THEN "UpdateDeploymentName"
    ELSE ImagePredicate(l)

\* syncHandler lines 407-413: both pointers are dereferenced for the call
ReplicasPredicate(l) ==
    IF l.Evan.spec.deploymentConfig.replicas = NilInt32 \/ l.deployment.replicas = NilInt32
    THEN "Panic"
    ELSE IF isReplicasChanged(l.Evan.spec.deploymentConfig.replicas, l.deployment.replicas)
         THEN "UpdateDeploymentReplicas"
         ELSE NamePredicate(l)

\* syncHandler lines 497-503
PortPredicate(l) ==
    IF Len(l.service.ports) = 0 THEN "Panic"
    ELSE IF isServicePortChanged(l.servicePort, l.service.ports[1].port)
         THEN "UpdateServicePort"
         ELSE "UpdateEvan"

\* syncHandler lines 488-494
ServiceNamePredicate(l) ==
    IF isServiceNameChanged(l.serviceName, l.service.name)
    THEN "UpdateServiceName"
    ELSE PortPredicate(l)

\* syncHandler lines 396-407, with the Deployment in hand: the ownership
\* check, then the first predicate.  Gives the locals and the next place.
DeploymentInHand(l) ==
    IF DeploymentConflict(l)
    THEN [loc |-> Return(l, 401, "not managed"), pc |-> "Return", warn |-> TRUE]
    ELSE [loc |-> l, pc |-> ReplicasPredicate(l), warn |-> FALSE]

\* syncHandler lines 481-488, with the Service in hand
ServiceInHand(l) ==
    IF ServiceConflict(l)
    THEN [loc |-> Return(l, 484, "not managed"), pc |-> "Return", warn |-> TRUE]
    ELSE [loc |-> l, pc |-> ServiceNamePredicate(l), warn |-> FALSE]

Warning(l) ==
    [object |-> l.Evan.name, type |-> EventTypeWarning, reason |-> ErrResourceExists]

\* a store call fails for a reason of its own (network, timeout) only while
\* the budget of external events lasts
MayFail(fine) == fine \/ ext < MaxExternal
Spent(fine) == IF fine THEN ext ELSE ext + 1

\* what the store keeps of a Deployment it is given (replicas default to 1)
StoredDeployment(d, rv, available) ==
    [d EXCEPT !.resourceVersion = rv,
              !.replicas = IF @ = NilInt32 THEN 1 ELSE @,
              !.availableReplicas = available]

\* a faulty processNextWorkItem: Done is called at once, not deferred to the
\* end of the function
GetDoneAtOnce(w) ==
    /\ ~crashed
    /\ pc[w] = "Get"
    /\ \/ /\ Len(workqueue.queue) > 0
          /\ workqueue' = Done(GetItem(workqueue), Head(workqueue.queue))
          /\ loc' = [loc EXCEPT ![w] = [ZeroLoc EXCEPT !.obj = Head(workqueue.queue)]]
          /\ pc' = [pc EXCEPT ![w] = "Sync"]
       \/ /\ Len(workqueue.queue) = 0
          /\ workqueue.shuttingDown
          /\ pc' = [pc EXCEPT ![w] = "Exited"]
          /\ UNCHANGED <<workqueue, loc>>
    /\ UNCHANGED <<storeVars, cacheVars, runVars, crashed, events, calls, book, idem>>

\* processNextWorkItem lines 238-243: Get hands out the head of the queue, or
\* reports the shutdown of an empty queue
Get(w) ==
    /\ ~crashed
    /\ pc[w] = "Get"
    /\ \/ /\ Len(workqueue.queue) > 0
          /\ workqueue' = GetItem(workqueue)
          /\ loc' = [loc EXCEPT ![w] = [ZeroLoc EXCEPT !.obj = Head(workqueue.queue)]]
          /\ pc' = [pc EXCEPT ![w] = "Sync"]
       \/ /\ Len(workqueue.queue) = 0
          /\ workqueue.shuttingDown
          /\ pc' = [pc EXCEPT ![w] = "Exited"]
          /\ UNCHANGED <<workqueue, loc>>
    /\ UNCHANGED <<storeVars, cacheVars, runVars, crashed, events, calls, book, idem>>

\* the start of a pass, for idem: phase 1 is a pass that began with every
\* cache equal to the store, phase 2 its successful end, phase 3 the pass
\* after that, begun in the same condition; any external edit resets it
PassStarts(n) ==
    IF n \notin DOMAIN idem THEN idem
    ELSE IF ~Consistent THEN [idem EXCEPT ![n] = [phase |-> 0, depl |-> <<>>, svc |-> <<>>]]
    ELSE IF idem[n].phase = 2
         THEN [idem EXCEPT ![n] = [phase |-> 3, depl |-> deplStore, svc |-> svcStore]]
         ELSE [idem EXCEPT ![n] = [phase |-> 1, depl |-> <<>>, svc |-> <<>>]]

\* a faulty syncHandler that returns the lister's error when the Evan is not
\* in the cache
NotFoundIsAnError(l) == Return(l, 361, "not found")

\* syncHandler lines 357-362: the lister does not find the Evan; the key is
\* reported as no longer existing and syncHandler returns nil
NotFound(l) == Return(l, 361, "")

\* a faulty worker that leaves an item that is not a string to be counted as
\* a failure and put back
NotAStringRequeued(w) ==
    /\ ~crashed
    /\ pc[w] = "Sync"
    /\ ~IsString(loc[w].obj)
    /\ workqueue' = AddRateLimited(workqueue, loc[w].obj)
    /\ book' = [book EXCEPT ![w] = "AddRateLimited"]
    /\ pc' = [pc EXCEPT ![w] = "Done"]
    /\ UNCHANGED <<storeVars, cacheVars, runVars, loc, crashed, events, calls, idem>>

\* processNextWorkItem lines 262-268: the item is not a string; it is
\* forgotten and reported, syncHandler is not called, and the function returns
\* to its deferred Done
NotAString(w) ==
    /\ ~crashed
    /\ pc[w] = "Sync"
    /\ ~IsString(loc[w].obj)
    /\ workqueue' = Forget(workqueue, loc[w].obj)
    /\ book' = [book EXCEPT ![w] = "Forget"]
    /\ pc' = [pc EXCEPT ![w] = "Done"]
    /\ UNCHANGED <<storeVars, cacheVars, runVars, loc, crashed, events, calls, idem>>

\* syncHandler lines 347-385: split the key, look the Evan up, default its
\* deletion policy (in the cached object), build the Deployment and look the
\* current one up in the lister
Sync(w) ==
    /\ ~crashed
    /\ pc[w] = "Sync"
    /\ IsString(loc[w].obj)
    /\ LET l == loc[w]
           k == SplitMetaNamespaceKey(l.obj)
       IN  IF k.err
           THEN /\ loc' = [loc EXCEPT ![w] = Return(l, 351, "")]
                /\ pc' = [pc EXCEPT ![w] = "Return"]
                /\ UNCHANGED <<evanCache, events, idem>>
           ELSE IF k.namespace # Namespace \/ k.name \notin DOMAIN evanCache
           THEN /\ loc' = [loc EXCEPT ![w] =
                             NotFound([l EXCEPT !.namespace = k.namespace,
                                                !.name = k.name])]
                /\ pc' = [pc EXCEPT ![w] = "Return"]
                /\ idem' = PassStarts(k.name)
                /\ UNCHANGED <<evanCache, events>>
           ELSE LET Evan == DefaultDeletionPolicy(evanCache[k.name])
                    ts == Evan.creationTimestamp
                    deploymentName ==
                        generateDeploymentName(Evan.name, Evan.spec.deploymentConfig.name, ts)
                    built == newDeployment(Evan, deploymentName)
                    updateDeployment ==
                        [built EXCEPT !.ownerReferences = OwnerReferencesFor(Evan)]
                    l1 == [l EXCEPT !.namespace = k.namespace, !.name = k.name,
                                    !.Evan = Evan, !.resourceCreationTimestamp = ts,
                                    !.deploymentName = deploymentName,
                                    !.updateDeployment = updateDeployment]
                IN  /\ evanCache' = [evanCache EXCEPT ![k.name] = Evan]
                    /\ idem' = PassStarts(k.name)
                    /\ IF deploymentName \in DOMAIN deplCache
                       THEN LET r == DeploymentInHand(
                                       [l1 EXCEPT !.deployment = deplCache[deploymentName]])
                            IN  /\ loc' = [loc EXCEPT ![w] = r.loc]
                                /\ pc' = [pc EXCEPT ![w] = r.pc]
                                /\ events' = IF r.warn THEN events \cup {Warning(l1)}
                                             ELSE events
                       ELSE /\ loc' = [loc EXCEPT ![w] = l1]
                            /\ pc' = [pc EXCEPT ![w] = "CreateDeployment"]
                            /\ UNCHANGED events
    /\ UNCHANGED <<storeVars, deplCache, svcCache, synced, workqueue, runVars,
                   crashed, calls, book>>

\* a faulty return: the error of the Create is dropped
CreateDeploymentFailedIgnored(l) == Return(l, 391, "")

\* syncHandler lines 389-392: the Create of the Deployment failed; the error
\* is returned
CreateDeploymentFailed(l) == Return(l, 391, "create failed")

\* syncHandler lines 388-394: Create the Deployment.  The store refuses a name
\* it holds, and any call may fail
CreateDeployment(w) ==
    /\ ~crashed
    /\ pc[w] = "CreateDeployment"
    /\ LET l == loc[w]
           n == l.deploymentName
       IN  \E fine \in BOOLEAN :
             /\ MayFail(fine)
             /\ ext' = Spent(fine)
             /\ IF fine /\ n \notin DOMAIN deplStore
                THEN LET d == StoredDeployment(l.updateDeployment, lastRv + 1, 0)
                         r == DeploymentInHand([l EXCEPT !.deployment = d])
                     IN  /\ deplStore' = Put(deplStore, n, d)
                         /\ lastRv' = lastRv + 1
                         /\ loc' = [loc EXCEPT ![w] = r.loc]
                         /\ pc' = [pc EXCEPT ![w] = r.pc]
                         /\ events' = IF r.warn THEN events \cup {Warning(l)} ELSE events
                         /\ calls' = [calls EXCEPT ![w] =
                                        Append(@, Call("Create", "Deployment", n, TRUE, TRUE))]
                ELSE /\ loc' = [loc EXCEPT ![w] = CreateDeploymentFailed(l)]
                     /\ pc' = [pc EXCEPT ![w] = "Return"]
                     /\ calls' = [calls EXCEPT ![w] =
                                    Append(@, Call("Create", "Deployment", n, FALSE, FALSE))]
                     /\ UNCHANGED <<deplStore, lastRv, events>>
    /\ UNCHANGED <<evanStore, svcStore, cacheVars, workqueue, runVars, crashed,
                   book, idem>>

\* where the pass goes after the Update of a predicate
AfterDeploymentUpdate(at, l) ==
    CASE at = "UpdateDeploymentReplicas" -> NamePredicate(l)
      [] at = "UpdateDeploymentName" -> ImagePredicate(l)
      [] at = "UpdateDeploymentImage" -> "Refetch"

\* a faulty Update: the stored object is deleted, to be created again by a
\* later pass
DeploymentsUpdateByDelete(store, n, d) == Del(store, n)

\* syncHandler lines 409, 418, 427: the Deployments Update verb replaces the
\* stored object of that name
DeploymentsUpdate(store, n, d) == [store EXCEPT ![n] = d]

\* syncHandler lines 409, 418, 427: Update the Deployment to updateDeployment.
\* The error is printed and the pass goes on with what the call returned.
UpdateDeployment(w) ==
    /\ ~crashed
    /\ pc[w] \in {"UpdateDeploymentReplicas", "UpdateDeploymentName", "UpdateDeploymentImage"}
    /\ LET l == loc[w]
           n == l.updateDeployment.name
       IN  \E fine \in BOOLEAN :
             /\ MayFail(fine)
             /\ ext' = Spent(fine)
             /\ IF fine /\ n \in DOMAIN deplStore
                THEN LET old == deplStore[n]
                         same == StoredDeployment(l.updateDeployment, old.resourceVersion,
                                                  old.availableReplicas)
                         d == IF same = old THEN old
                              ELSE [same EXCEPT !.resourceVersion = lastRv + 1]
                         l1 == [l EXCEPT !.deployment = d]
                     IN  /\ deplStore' = DeploymentsUpdate(deplStore, n, d)
                         /\ lastRv' = IF same = old THEN lastRv ELSE lastRv + 1
                         /\ loc' = [loc EXCEPT ![w] = l1]
                         /\ pc' = [pc EXCEPT ![w] = AfterDeploymentUpdate(pc[w], l1)]
                         /\ calls' = [calls EXCEPT ![w] =
                                        Append(@, Call("Update", "Deployment", n, TRUE,
                                                       same # old))]
                ELSE LET l1 == [l EXCEPT !.deployment = ZeroDeployment]
                     IN  /\ loc' = [loc EXCEPT ![w] = l1]
                         /\ pc' = [pc EXCEPT ![w] = AfterDeploymentUpdate(pc[w], l1)]
                         /\ calls' = [calls EXCEPT ![w] =
                                        Append(@, Call("Update", "Deployment", n, FALSE, FALSE))]
                         /\ UNCHANGED <<deplStore, lastRv>>
    /\ UNCHANGED <<evanStore, svcStore, cacheVars, workqueue, runVars, crashed,
                   events, book, idem>>

\* a faulty return: the Evan gone at the second lookup is an error
RefetchNotFoundIsAnError(l) == Return(l, 440, "not found")

\* syncHandler lines 438-441: the second lookup does not find the Evan; the
\* pass returns nil
RefetchNotFound(l) == Return(l, 440, "")

\* syncHandler lines 434-467: look the Evan up again, take the port, build the
\* Service
Refetch(w) ==
    /\ ~crashed
    /\ pc[w] = "Refetch"
    /\ LET l == loc[w]
       IN  IF l.name \notin DOMAIN evanCache
           THEN /\ loc' = [loc EXCEPT ![w] = RefetchNotFound(l)]
                /\ pc' = [pc EXCEPT ![w] = "Return"]
           ELSE LET Evan == evanCache[l.name]
                    serviceName ==
                        generateServiceName(Evan.name, Evan.spec.serviceConfig.name,
                                            l.resourceCreationTimestamp)
                    servicePort == Evan.spec.serviceConfig.port
                    serviceTargetPort ==
                        IF Evan.spec.serviceConfig.targetPort = 0 THEN servicePort
                        ELSE Evan.spec.serviceConfig.targetPort
                    built == newService(Evan, serviceName, serviceTargetPort)
                    updateService ==
                        [built EXCEPT !.ownerReferences = OwnerReferencesFor(Evan)]
                    l1 == [l EXCEPT !.Evan = Evan, !.serviceName = serviceName,
                                    !.servicePort = servicePort]
                IN  IF ServicePortMissing(servicePort)
                    THEN /\ loc' = [loc EXCEPT ![w] = Return(l1, 452, "")]
                         /\ pc' = [pc EXCEPT ![w] = "Return"]
                    ELSE /\ loc' = [loc EXCEPT ![w] =
                                      [l1 EXCEPT !.serviceTargetPort = serviceTargetPort,
                                                 !.updateService = updateService]]
                         /\ pc' = [pc EXCEPT ![w] = "GetService"]
    /\ UNCHANGED <<storeVars, cacheVars, workqueue, runVars, crashed, events, calls,
                   book, idem>>

\* syncHandler line 470: Get the Service from the store.  Only a NotFound
\* error leads to Create; after any other error the pass goes on with the zero
\* Service the call returned
GetService(w) ==
    /\ ~crashed
    /\ pc[w] = "GetService"
    /\ LET l == loc[w]
           n == l.serviceName
       IN  \E fine \in BOOLEAN :
             /\ MayFail(fine)
             /\ ext' = Spent(fine)
             /\ IF fine /\ n \notin DOMAIN svcStore
                THEN /\ loc' = [loc EXCEPT ![w] = l]
                     /\ pc' = [pc EXCEPT ![w] = "CreateService"]
                     /\ calls' = [calls EXCEPT ![w] =
                                    Append(@, Call("Get", "Service", n, FALSE, FALSE))]
                     /\ UNCHANGED events
                ELSE LET r == ServiceInHand(
                                [l EXCEPT !.service = IF fine THEN svcStore[n] ELSE ZeroService])
                     IN  /\ loc' = [loc EXCEPT ![w] = r.loc]
                         /\ pc' = [pc EXCEPT ![w] = r.pc]
                         /\ events' = IF r.warn THEN events \cup {Warning(l)} ELSE events
                         /\ calls' = [calls EXCEPT ![w] =
                                        Append(@, Call("Get", "Service", n, fine, FALSE))]
    /\ UNCHANGED <<evanStore, deplStore, svcStore, lastRv, cacheVars, workqueue, runVars, crashed, book, idem>>

\* syncHandler lines 473-479: Create the Service
CreateService(w) ==
    /\ ~crashed
    /\ pc[w] = "CreateService"
    /\ LET l == loc[w]
           n == l.serviceName
       IN  \E fine \in BOOLEAN :
             /\ MayFail(fine)
             /\ ext' = Spent(fine)
             /\ IF fine /\ n \notin DOMAIN svcStore
                THEN LET v == [l.updateService EXCEPT !.resourceVersion = lastRv + 1]
                         r == ServiceInHand([l EXCEPT !.service = v])
                     IN  /\ svcStore' = Put(svcStore, n, v)
                         /\ lastRv' = lastRv + 1
                         /\ loc' = [loc EXCEPT ![w] = r.loc]
                         /\ pc' = [pc EXCEPT ![w] = r.pc]
                         /\ events' = IF r.warn THEN events \cup {Warning(l)} ELSE events
                         /\ calls' = [calls EXCEPT ![w] =
                                        Append(@, Call("Create", "Service", n, TRUE, TRUE))]
                ELSE /\ loc' = [loc EXCEPT ![w] = Return(l, 476, "create failed")]
                     /\ pc' = [pc EXCEPT ![w] = "Return"]
                     /\ calls' = [calls EXCEPT ![w] =
                                    Append(@, Call("Create", "Service", n, FALSE, FALSE))]
                     /\ UNCHANGED <<svcStore, lastRv, events>>
    /\ UNCHANGED <<evanStore, deplStore, cacheVars, workqueue, runVars, crashed,
                   book, idem>>

AfterServiceUpdate(at, l) ==
    CASE at = "UpdateServiceName" -> PortPredicate(l)
      [] at = "UpdateServicePort" -> "UpdateEvan"

\* syncHandler lines 490, 499: Update the Service to updateService
UpdateService(w) ==
    /\ ~crashed
    /\ pc[w] \in {"UpdateServiceName", "UpdateServicePort"}
    /\ LET l == loc[w]
           n == l.updateService.name
       IN  \E fine \in BOOLEAN :
             /\ MayFail(fine)
             /\ ext' = Spent(fine)
             /\ IF fine /\ n \in DOMAIN svcStore
                THEN LET old == svcStore[n]
                         same == [l.updateService EXCEPT !.resourceVersion = old.resourceVersion]
                         v == IF same = old THEN old
                              ELSE [same EXCEPT !.resourceVersion = lastRv + 1]
                         l1 == [l EXCEPT !.service = v]
                     IN  /\ svcStore' = [svcStore EXCEPT ![n] = v]
                         /\ lastRv' = IF same = old THEN lastRv ELSE lastRv + 1
                         /\ loc' = [loc EXCEPT ![w] = l1]
                         /\ pc' = [pc EXCEPT ![w] = AfterServiceUpdate(pc[w], l1)]
                         /\ calls' = [calls EXCEPT ![w] =
                                        Append(@, Call("Update", "Service", n, TRUE, same # old))]
                ELSE LET l1 == [l EXCEPT !.service = ZeroService]
                     IN  /\ loc' = [loc EXCEPT ![w] = l1]
                         /\ pc' = [pc EXCEPT ![w] = AfterServiceUpdate(pc[w], l1)]
                         /\ calls' = [calls EXCEPT ![w] =
                                        Append(@, Call("Update", "Service", n, FALSE, FALSE))]
                         /\ UNCHANGED <<svcStore, lastRv>>
    /\ UNCHANGED <<evanStore, deplStore, cacheVars, workqueue, runVars, crashed,
                   events, book, idem>>

\* updateevan, and syncHandler lines 505-510: Update a copy of the Evan that
\* carries the status.  The store refuses a copy of another version than the
\* one it holds; it keeps spec and status of the copy it accepts (the CRD has
\* no status subresource)
UpdateEvan(w) ==
    /\ ~crashed
    /\ pc[w] = "UpdateEvan"
    /\ LET l == loc[w]
           n == l.Evan.name
           EvanCopy == [l.Evan EXCEPT !.status.availableReplicas = StatusToWrite(l)]
       IN  \E fine \in BOOLEAN :
             /\ MayFail(fine)
             /\ ext' = Spent(fine)
             /\ IF /\ fine
                   /\ n \in DOMAIN evanStore
                   /\ evanStore[n].resourceVersion = EvanCopy.resourceVersion
                THEN LET old == evanStore[n]
                         v == IF EvanCopy = old THEN old
                              ELSE [EvanCopy EXCEPT !.resourceVersion = lastRv + 1]
                     IN  /\ evanStore' = [evanStore EXCEPT ![n] = v]
                         /\ lastRv' = IF EvanCopy = old THEN lastRv ELSE lastRv + 1
                         /\ loc' = [loc EXCEPT ![w] = Return(l, 510, "")]
                         /\ calls' = [calls EXCEPT ![w] =
                                        Append(@, Call("Update", "Evan", n, TRUE, EvanCopy # old))]
                ELSE /\ loc' = [loc EXCEPT ![w] = Return(l, 507, "update failed")]
                     /\ calls' = [calls EXCEPT ![w] =
                                    Append(@, Call("Update", "Evan", n, FALSE, FALSE))]
                     /\ UNCHANGED <<evanStore, lastRv>>
    /\ pc' = [pc EXCEPT ![w] = "Return"]
    /\ UNCHANGED <<deplStore, svcStore, cacheVars, workqueue, runVars, crashed,
                   events, book, idem>>

\* the end of a pass, for idem
PassEnds(n, ok) ==
    IF n \notin DOMAIN idem THEN idem
    ELSE IF ~ok THEN [idem EXCEPT ![n] = [phase |-> 0, depl |-> <<>>, svc |-> <<>>]]
    ELSE IF idem[n].phase = 1 THEN [idem EXCEPT ![n].phase = 2]
    ELSE idem

\* a faulty worker that forgets the key whatever syncHandler returned
ReturnedAlwaysForget(w) ==
    /\ ~crashed
    /\ pc[w] = "Return"
    /\ workqueue' = Forget(workqueue, loc[w].obj)
    /\ book' = [book EXCEPT ![w] = "Forget"]
    /\ idem' = PassEnds(loc[w].name, loc[w].err = "")
    /\ pc' = [pc EXCEPT ![w] = "Done"]
    /\ UNCHANGED <<storeVars, cacheVars, runVars, loc, crashed, events, calls>>

\* processNextWorkItem lines 273-282: syncHandler has returned; an error puts
\* the key back rate limited, success forgets it
Returned(w) ==
    /\ ~crashed
    /\ pc[w] = "Return"
    /\ IF loc[w].err # ""
       THEN /\ workqueue' = AddRateLimited(workqueue, loc[w].obj)
            /\ book' = [book EXCEPT ![w] = "AddRateLimited"]
       ELSE /\ workqueue' = Forget(workqueue, loc[w].obj)
            /\ book' = [book EXCEPT ![w] = "Forget"]
    /\ idem' = PassEnds(loc[w].name, loc[w].err = "")
    /\ pc' = [pc EXCEPT ![w] = "Done"]
    /\ UNCHANGED <<storeVars, cacheVars, runVars, loc, crashed, events, calls>>

\* processNextWorkItem line 253: the deferred Done; the worker loops
DoneItem(w) ==
    /\ ~crashed
    /\ pc[w] = "Done"
    /\ workqueue' = Done(workqueue, loc[w].obj)
    /\ pc' = [pc EXCEPT ![w] = "Get"]
    /\ loc' = [loc EXCEPT ![w] = ZeroLoc]
    /\ calls' = [calls EXCEPT ![w] = <<>>]
    /\ book' = [book EXCEPT ![w] = ""]
    /\ idem' = IF loc[w].name \in DOMAIN idem /\ idem[loc[w].name].phase = 3
               THEN [idem EXCEPT ![loc[w].name] = [phase |-> 2, depl |-> <<>>, svc |-> <<>>]]
               ELSE idem
    /\ UNCHANGED <<storeVars, cacheVars, runVars, crashed, events>>

\* a nil pointer or an index out of range in syncHandler: the deferred Done
\* runs, nothing recovers the panic, the process dies
Panic(w) ==
    /\ ~crashed
    /\ pc[w] = "Panic"
    /\ workqueue' = Done(workqueue, loc[w].obj)
    /\ crashed' = TRUE
    /\ pc' = [pc EXCEPT ![w] = "Crashed"]
    /\ idem' = PassEnds(loc[w].name, FALSE)
    /\ UNCHANGED <<storeVars, cacheVars, runVars, loc, events, calls, book>>

\* ----------------------------------------------------------- specifications
MakeSpec(deploymentName, replicas, image, port, deletionPolicy) ==
    [deploymentConfig |-> [name |-> deploymentName, replicas |-> replicas, image |-> image],
     serviceConfig |-> [name |-> "", type |-> "ClusterIP", port |-> port,
                        targetPort |-> 0, nodePort |-> 0],
     deletionPolicy |-> deletionPolicy]

InitWith(names, n) ==
    /\ evanStore = <<>> /\ deplStore = <<>> /\ svcStore = <<>>
    /\ lastRv = 0 /\ ext = 0
    /\ evanCache = <<>> /\ deplCache = <<>> /\ svcCache = <<>>
    /\ synced = {}
    /\ workqueue = NewRateLimitingQueue
    /\ runPc = "WaitForCacheSync" /\ ctxDone = FALSE /\ workers = n
    /\ pc = [w \in Workers |-> "off"]
    /\ loc = [w \in Workers |-> ZeroLoc]
    /\ crashed = FALSE
    /\ events = {}
    /\ calls = [w \in Workers |-> <<>>]
    /\ book = [w \in Workers |-> ""]
    /\ idem = [k \in names |-> [phase |-> 0, depl |-> <<>>, svc |-> <<>>]]

\* runWorker: one worker's next step, in processNextWorkItem or in the
\* syncHandler it calls
runWorker(w) ==
    \/ Get(w) \/ Sync(w) \/ CreateDeployment(w) \/ UpdateDeployment(w)
    \/ Refetch(w) \/ GetService(w) \/ CreateService(w) \/ UpdateService(w)
    \/ UpdateEvan(w) \/ Returned(w) \/ DoneItem(w) \/ Panic(w)

Controller ==
    \/ \E n \in DOMAIN evanStore \cup DOMAIN evanCache : InformEvan(n)
    \/ \E n \in DOMAIN deplStore \cup DOMAIN deplCache : InformDeployment(n)
    \/ \E n \in DOMAIN svcStore \cup DOMAIN svcCache : InformService(n)
    \/ \E kind \in Kinds : HasSynced(kind)
    \/ \E item \in workqueue.waiting : DelayElapsed(item)
    \/ RunStart
    \/ RunStop
    \/ \E w \in Workers : runWorker(w)

World(names, specs, stamps) ==
    \/ \E n \in names, s \in specs, t \in stamps : AuthorCreate(n, s, t)
    \/ \E n \in names, s \in specs : AuthorUpdate(n, s)
    \/ \E n \in names : AuthorDelete(n)
    \/ \E n \in names, s \in specs, t \in stamps :
         ExternalCreateDeployment(
             generateDeploymentName(n, s.deploymentConfig.name, t), 1, "img:1")
    \/ \E n \in DOMAIN deplStore, a \in 0 .. MaxReplicas : DeploymentStatus(n, a)
    \/ Cancel

\* the controller with its pool of workers and one parent name, whose spec
\* the author picks among AuthorSpecs
ParentNames == {"p1"}
Stamps == {1000}
AuthorSpecs ==
    {MakeSpec("", r, "img:1", p, d) :
        r \in {NilInt32, MaxReplicas}, p \in {0, 80}, d \in {"", PolicyWipeOut, PolicyDelete}}

Init == InitWith(ParentNames, NumWorkers)
Next == Controller \/ World(ParentNames, AuthorSpecs, Stamps)
Spec == Init /\ [][Next]_vars

\* the Go scheduler lets every goroutine that can run take its next step: the
\* workers, Run, the informers and the delaying queue's timer
Fairness ==
    /\ \A w \in Workers : WF_vars(runWorker(w))
    /\ WF_vars(RunStart \/ RunStop)
    /\ WF_vars(\E item \in workqueue.waiting : DelayElapsed(item))
FairSpec == Init /\ [][Next]_vars /\ Fairness

\* the controller under the same fairness with an author who always gives a
\* port and a deletion policy: passes fail on a Deployment that is somebody
\* else's and on the faults of the store
RetrySpecs ==
    {MakeSpec("", r, "img:1", 80, d) :
        r \in {NilInt32, MaxReplicas}, d \in {PolicyWipeOut, PolicyDelete}}
RetryNext == Controller \/ World(ParentNames, RetrySpecs, Stamps)
RetrySpec == Init /\ [][RetryNext]_vars /\ Fairness

\* the controller and an author who also edits the override name of the
\* Deployment
RenameSpecs ==
    {MakeSpec(o, r, "img:1", 80, d) :
        o \in {"", "b"}, r \in {NilInt32, MaxReplicas}, d \in {"", PolicyDelete}}
RenameNext == Controller \/ World(ParentNames, RenameSpecs, Stamps)
RenameSpec == Init /\ [][RenameNext]_vars

\* the controller started with one worker on a store that already holds a
\* parent, whose author then changes the number of replicas; store calls may
\* fail
FaultParent == "p1"
FaultSpecs == {MakeSpec("", r, "img:1", 80, "") : r \in {NilInt32, 1, MaxReplicas}}
FaultInit ==
    /\ evanStore = (FaultParent :>
                      [ZeroEvan EXCEPT !.name = FaultParent, !.namespace = Namespace,
                                       !.uid = 1, !.resourceVersion = 1,
                                       !.creationTimestamp = 1000,
                                       !.spec = MakeSpec("", MaxReplicas, "img:1", 80, "")])
    /\ deplStore = <<>> /\ svcStore = <<>>
    /\ lastRv = 1 /\ ext = 0
    /\ evanCache = <<>> /\ deplCache = <<>> /\ svcCache = <<>>
    /\ synced = {}
    /\ workqueue = NewRateLimitingQueue
    /\ runPc = "WaitForCacheSync" /\ ctxDone = FALSE /\ workers = 1
    /\ pc = [w \in Workers |-> "off"]
    /\ loc = [w \in Workers |-> ZeroLoc]
    /\ crashed = FALSE
    /\ events = {}
    /\ calls = [w \in Workers |-> <<>>]
    /\ book = [w \in Workers |-> ""]
    /\ idem = [k \in {FaultParent} |-> [phase |-> 0, depl |-> <<>>, svc |-> <<>>]]
FaultNext == Controller \/ World({FaultParent}, FaultSpecs, Stamps)
FaultSpec == FaultInit /\ [][FaultNext]_vars

\* A parent that exists when the controller starts, whose author keeps every
\* field valid and only edits the replica count and the service port; the
\* informers deliver what the store holds, the workers and the queue's timer
\* keep running
ConvergeParent == "p1"
ConvergeSpecs ==
    {MakeSpec("", r, "img:1", p, PolicyDelete) : r \in {1, MaxReplicas}, p \in {80, 81}}
ConvergeInit ==
    /\ evanStore = (ConvergeParent :>
                      [ZeroEvan EXCEPT !.name = ConvergeParent, !.namespace = Namespace,
                                       !.uid = 1, !.resourceVersion = 1,
                                       !.creationTimestamp = 1000,
                                       !.spec = MakeSpec("", 1, "img:1", 80, PolicyDelete)])
    /\ deplStore = <<>> /\ svcStore = <<>>
    /\ lastRv = 1 /\ ext = 0
    /\ evanCache = <<>> /\ deplCache = <<>> /\ svcCache = <<>>
    /\ synced = {}
    /\ workqueue = NewRateLimitingQueue
    /\ runPc = "WaitForCacheSync" /\ ctxDone = FALSE /\ workers = 1
    /\ pc = [w \in Workers |-> "off"]
    /\ loc = [w \in Workers |-> ZeroLoc]
    /\ crashed = FALSE
    /\ events = {}
    /\ calls = [w \in Workers |-> <<>>]
    /\ book = [w \in Workers |-> ""]
    /\ idem = [k \in {ConvergeParent} |-> [phase |-> 0, depl |-> <<>>, svc |-> <<>>]]
ConvergeNext ==
    \/ Controller
    \/ \E s \in ConvergeSpecs : AuthorUpdate(ConvergeParent, s)
    \/ Cancel
InformerFairness ==
    /\ WF_vars(\E n \in DOMAIN evanStore \cup DOMAIN evanCache : InformEvan(n))
    /\ WF_vars(\E n \in DOMAIN deplStore \cup DOMAIN deplCache : InformDeployment(n))
    /\ WF_vars(\E n \in DOMAIN svcStore \cup DOMAIN svcCache : InformService(n))
    /\ WF_vars(\E kind \in Kinds : HasSynced(kind))
ConvergeSpec == ConvergeInit /\ [][ConvergeNext]_vars /\ Fairness /\ InformerFairness

\* The parent of FaultInit, whose author edits the replica count (unset, zero
\* or positive) and the image
DiffSpecs ==
    {MakeSpec("", 1, "img:1", 80, ""), MakeSpec("", MaxReplicas, "img:2", 80, ""),
     MakeSpec("", 0, "img:1", 80, ""), MakeSpec("", NilInt32, "img:2", 80, "")}
DiffNext ==
    \/ Controller
    \/ \E s \in DiffSpecs : AuthorUpdate(FaultParent, s)
    \/ Cancel
DiffSpec == FaultInit /\ [][DiffNext]_vars

\* The parent of FaultInit, whose author edits the service's port, target
\* port, node port and type, or the replicas and the deletion policy
EndpointSpecs ==
    LET base == MakeSpec("", MaxReplicas, "img:1", 80, "")
    IN  {[base EXCEPT !.serviceConfig.port = 81],
         [base EXCEPT !.serviceConfig.targetPort = 8080],
         [base EXCEPT !.serviceConfig.type = "NodePort", !.serviceConfig.nodePort = 30000],
         [base EXCEPT !.deploymentConfig.replicas = 1, !.deletionPolicy = PolicyDelete]}
EndpointNext ==
    \/ Controller
    \/ \E s \in EndpointSpecs : AuthorUpdate(FaultParent, s)
    \/ Cancel
EndpointSpec == FaultInit /\ [][EndpointNext]_vars

\* The parent of ConvergeInit, whose deletion policy is and stays Delete: its
\* author edits replicas and port, somebody deletes its children, and the
\* Deployment controller reports the available replicas
UnownedSpecs ==
    {MakeSpec("", 1, "img:1", 80, PolicyDelete), MakeSpec("", MaxReplicas, "img:1", 81, PolicyDelete)}
UnownedNext ==
    \/ Controller
    \/ \E s \in UnownedSpecs : AuthorUpdate(ConvergeParent, s)
    \/ \E n \in DOMAIN deplStore : ExternalDeleteChild("Deployment", n)
    \/ \E n \in DOMAIN svcStore : ExternalDeleteChild("Service", n)
    \/ \E n \in DOMAIN deplStore, a \in 0 .. MaxReplicas : DeploymentStatus(n, a)
    \/ Cancel
UnownedSpec == ConvergeInit /\ [][UnownedNext]_vars

\* The parent of ConvergeInit, whose author changes the deletion policy from
\* Delete to WipeOut and the replicas; somebody deletes a child or makes the
\* parent its controlling owner
PolicySpecs ==
    {MakeSpec("", 1, "img:1", 80, PolicyDelete), MakeSpec("", 1, "img:1", 80, PolicyWipeOut),
     MakeSpec("", MaxReplicas, "img:1", 80, PolicyWipeOut)}
PolicyNext ==
    \/ Controller
    \/ \E s \in PolicySpecs : AuthorUpdate(ConvergeParent, s)
    \/ \E n \in DOMAIN deplStore : ExternalDeleteChild("Deployment", n)
    \/ \E n \in DOMAIN svcStore : ExternalDeleteChild("Service", n)
    \/ \E n \in DOMAIN deplStore :
          ExternalAdoptChild("Deployment", n, <<NewControllerRef(evanStore[ConvergeParent])>>)
    \/ \E n \in DOMAIN svcStore :
          ExternalAdoptChild("Service", n, <<NewControllerRef(evanStore[ConvergeParent])>>)
    \/ Cancel
PolicySpec == ConvergeInit /\ [][PolicyNext]_vars

\* The worker loop on a queue that holds items of any kind: an item that is
\* not a string, a string of three parts, the key of a parent that is not in
\* the cache and a bare name.  enqueueEvan puts only keys of the form
\* namespace/name in the queue, so here the queue is filled at the start.
WorkItems == {<<>>, <<"a", "b", "c">>, <<Namespace, "p1">>, <<"p1">>}
Malformed == {item \in WorkItems : ~IsString(item) \/ SplitMetaNamespaceKey(item).err}
MaxItems == 3
Range(seq) == {seq[i] : i \in DOMAIN seq}
Queues ==
    {seq \in UNION {[1 .. n -> WorkItems] : n \in 0 .. MaxItems} :
        Cardinality(Range(seq)) = Len(seq)}
MalformedInit ==
    /\ evanStore = <<>> /\ deplStore = <<>> /\ svcStore = <<>>
    /\ lastRv = 0 /\ ext = 0
    /\ evanCache = <<>> /\ deplCache = <<>> /\ svcCache = <<>>
    /\ synced = {}
    /\ \E seq \in Queues :
          workqueue = [NewRateLimitingQueue EXCEPT !.queue = seq, !.dirty = Range(seq)]
    /\ runPc = "WaitForCacheSync" /\ ctxDone = FALSE /\ workers = NumWorkers
    /\ pc = [w \in Workers |-> "off"]
    /\ loc = [w \in Workers |-> ZeroLoc]
    /\ crashed = FALSE
    /\ events = {}
    /\ calls = [w \in Workers |-> <<>>]
    /\ book = [w \in Workers |-> ""]
    /\ idem = <<>>
MalformedNext ==
    \/ \E kind \in Kinds : HasSynced(kind)
    \/ RunStart
    \/ \E w \in Workers :
         Get(w) \/ NotAString(w) \/ Sync(w) \/ Returned(w) \/ DoneItem(w)
MalformedSpec == MalformedInit /\ [][MalformedNext]_vars

\* ------------------------------------------------------- the rate limiter
\* Delays are in milliseconds.  NewItemExponentialFailureRateLimiter(base,
\* max).When: with exp failures counted so far the delay is base * 2^exp, cut
\* at max; the failure is then counted.
ItemExponentialFailureWhen(baseDelay, maxDelay, exp) ==
    IF baseDelay * (2 ^ exp) > maxDelay THEN maxDelay ELSE baseDelay * (2 ^ exp)

\* BucketRateLimiter.When is Limiter.Reserve().Delay(): the reservation takes
\* one token; with tokens left over there is no delay, otherwise the delay is
\* the time the bucket needs, at qps tokens a second, to make up the debt
BucketWhen(qps, tokens) ==
    IF tokens - 1 >= 0 THEN 0 ELSE ((1 - tokens) * 1000) \div qps

MaxOf(a, b) == IF a >= b THEN a ELSE b

\* the numbers NewController gives the two limiters
BaseDelay == 5
MaxDelay == 1000000
BucketQps == 50
BucketBurst == 300

\* a faulty limiter made of the per-item backoff alone
ratelimiterBackoffOnly(exp, tokens) ==
    ItemExponentialFailureWhen(BaseDelay, MaxDelay, exp)

\* NewController lines 123-126: ratelimiter.When for an item with exp failures
\* counted so far, the bucket holding tokens
ratelimiter(exp, tokens) ==
    MaxOf(ItemExponentialFailureWhen(BaseDelay, MaxDelay, exp),
          BucketWhen(BucketQps, tokens))

\* The queue's limiter alone, for two keys: failures are counted per key up to
\* MaxBackoffs, the bucket is shared and may run into a debt of MaxDebt
\* tokens, and every 1000 / BucketQps milliseconds it gains a token.  The
\* fields when, nth, had and item are history, kept for one step: the delay
\* the limiter has just given, the failure it was given for, the tokens the
\* bucket had and the key; after a Forget, item is the key forgotten and nth
\* is 0.
RateKeys == {<<Namespace, "p1">>, <<Namespace, "p2">>}
MaxBackoffs == 19
MaxDebt == 2
RateInit ==
    /\ evanStore = <<>> /\ deplStore = <<>> /\ svcStore = <<>>
    /\ lastRv = 0 /\ ext = 0
    /\ evanCache = <<>> /\ deplCache = <<>> /\ svcCache = <<>>
    /\ synced = Kinds
    /\ \E t \in {BucketBurst, 1, 0} :
          workqueue = [tokens |-> t, when |-> 0, nth |-> 0, had |-> 0, item |-> <<>>]
                      @@ NewRateLimitingQueue
    /\ runPc = "Running" /\ ctxDone = FALSE /\ workers = NumWorkers
    /\ pc = [w \in Workers |-> "Get"]
    /\ loc = [w \in Workers |-> ZeroLoc]
    /\ crashed = FALSE
    /\ events = {}
    /\ calls = [w \in Workers |-> <<>>]
    /\ book = [w \in Workers |-> ""]
    /\ idem = <<>>

\* processNextWorkItem line 275 seen from the limiter: AddRateLimited(key)
\* asks ratelimiter.When(key), which counts the failure and takes a token
LimiterWhen(key) ==
    /\ NumRequeues(workqueue, key) < MaxBackoffs
    /\ workqueue.tokens > -MaxDebt
    /\ workqueue' =
         [workqueue EXCEPT
            !.when = ratelimiter(NumRequeues(workqueue, key), workqueue.tokens),
            !.nth = NumRequeues(workqueue, key) + 1,
            !.had = workqueue.tokens,
            !.item = key,
            !.tokens = @ - 1,
            !.failures = [i \in DOMAIN @ \cup {key} |->
                            IF i = key THEN NumRequeues(workqueue, key) + 1 ELSE @[i]]]
    /\ UNCHANGED <<storeVars, cacheVars, runVars, workerVars, idem>>

\* a faulty Forget that halves the count of failures
LimiterForgetHalf(key) ==
    /\ key \in DOMAIN workqueue.failures
    /\ workqueue' = [workqueue EXCEPT
                        !.failures = [@ EXCEPT ![key] = @ \div 2],
                        !.when = 0, !.nth = 0, !.had = 0, !.item = key]
    /\ UNCHANGED <<storeVars, cacheVars, runVars, workerVars, idem>>

\* processNextWorkItem lines 265 and 280 seen from the limiter: Forget(key)
LimiterForget(key) ==
    /\ key \in DOMAIN workqueue.failures
    /\ workqueue' = [Forget(workqueue, key) EXCEPT
                        !.when = 0, !.nth = 0, !.had = 0, !.item = key]
    /\ UNCHANGED <<storeVars, cacheVars, runVars, workerVars, idem>>

\* time passes: the bucket gains a token, up to its burst
TokenGained ==
    /\ workqueue.tokens < BucketBurst
    /\ workqueue' = [workqueue EXCEPT !.tokens = @ + 1,
                                      !.when = 0, !.nth = 0, !.had = 0, !.item = <<>>]
    /\ UNCHANGED <<storeVars, cacheVars, runVars, workerVars, idem>>

RateNext ==
    \/ \E key \in RateKeys : LimiterWhen(key)
    \/ \E key \in RateKeys : LimiterForget(key)
    \/ TokenGained
RateSpec == RateInit /\ [][RateNext]_vars

\* The event router alone: the informers deliver to the handlers what happens
\* to one parent, which is in the store when the controller starts, and to
\* children that others create with owner references of every sort, update
\* and delete.
RouterParent == "p1"
RouterChild == "c1"
RouterRef(kind, name, controller) ==
    [kind |-> kind, name |-> name, uid |-> 1, controller |-> controller]
RouterRefs ==
    {<<>>,
     <<RouterRef(KindEvan, RouterParent, TRUE)>>,
     <<RouterRef(KindEvan, "p2", TRUE)>>,
     <<RouterRef("ReplicaSet", RouterParent, TRUE)>>,
     <<RouterRef(KindEvan, RouterParent, FALSE)>>}

RouterInit ==
    /\ evanStore = (RouterParent :>
                      [ZeroEvan EXCEPT !.name = RouterParent, !.namespace = Namespace,
                                       !.uid = 1, !.resourceVersion = 1,
                                       !.creationTimestamp = 1000,
                                       !.spec = MakeSpec("", MaxReplicas, "img:1", 80, "")])
    /\ deplStore = <<>> /\ svcStore = <<>>
    /\ lastRv = 1 /\ ext = 0
    /\ evanCache = <<>> /\ deplCache = <<>> /\ svcCache = <<>>
    /\ synced = {}
    /\ workqueue = NewRateLimitingQueue
    /\ runPc = "WaitForCacheSync" /\ ctxDone = FALSE /\ workers = NumWorkers
    /\ pc = [w \in Workers |-> "off"]
    /\ loc = [w \in Workers |-> ZeroLoc]
    /\ crashed = FALSE
    /\ events = {}
    /\ calls = [w \in Workers |-> <<>>]
    /\ book = [w \in Workers |-> ""]
    /\ idem = <<>>

RouterNext ==
    \/ \E n \in DOMAIN evanStore \cup DOMAIN evanCache : InformEvan(n)
    \/ \E n \in DOMAIN deplStore \cup DOMAIN deplCache : InformDeployment(n)
    \/ \E n \in DOMAIN svcStore \cup DOMAIN svcCache : InformService(n)
    \/ \E kind \in {"Deployment", "Service"}, refs \in RouterRefs :
         ExternalCreateChild(kind, RouterChild, refs)
    \/ \E kind \in {"Deployment", "Service"} : ExternalDeleteChild(kind, RouterChild)
    \/ \E a \in 0 .. 1 : DeploymentStatus(RouterChild, a)
    \/ AuthorDelete(RouterParent)

RouterSpec == RouterInit /\ [][RouterNext]_vars

\* ------------------------------------------------- the registered handlers
\* What an informer hands to a handler is an interface{} value: a resource
\* object, a cache.DeletedFinalStateUnknown that wraps the last known state
\* of a deleted object, or a value of some other type
Object(o) == [is |-> "Object", obj |-> o]
DeletedFinalStateUnknown(p) == [is |-> "DeletedFinalStateUnknown", obj |-> p]
NotAnObject == [is |-> "Other", obj |-> <<>>]
InvalidPayloads == {NotAnObject, DeletedFinalStateUnknown(NotAnObject)}

\* a faulty decoding: a tombstone is taken for an invalid type
decodeObjectNoTombstone(obj) ==
    IF obj.is = "Object" THEN [ok |-> TRUE, object |-> obj.obj, report |-> ""]
    ELSE [ok |-> FALSE, object |-> <<>>, report |-> "error decoding object, invalid type"]

\* handleObject lines 549-561: the metav1.Object of a payload, or the error
\* that is reported
decodeObject(obj) ==
    IF obj.is = "Object" THEN [ok |-> TRUE, object |-> obj.obj, report |-> ""]
    ELSE IF obj.is # "DeletedFinalStateUnknown"
    THEN [ok |-> FALSE, object |-> <<>>, report |-> "error decoding object, invalid type"]
    ELSE IF obj.obj.is # "Object"
    THEN [ok |-> FALSE, object |-> <<>>,
          report |-> "error decoding object tombstone, invalid type"]
    ELSE [ok |-> TRUE, object |-> obj.obj.obj, report |-> ""]

\* Controller.handleObject, for any payload
handleObjectPayload(q, obj) ==
    IF decodeObject(obj).ok THEN handleObject(q, decodeObject(obj).object) ELSE q

\* utilruntime.HandleError of handleObject, as the set of what is reported
Reported(obj) ==
    IF decodeObject(obj).ok THEN {}
    ELSE {[object |-> "", type |-> "HandleError", reason |-> decodeObject(obj).report]}

\* a faulty UpdateFunc of the Evan informer: an unchanged version is skipped
EvanUpdateFuncSuppressed(q, old, new) ==
    IF new.resourceVersion = old.resourceVersion THEN q ELSE enqueueEvan(q, new)

\* NewController lines 150-156: the handlers of the Evan informer
EvanAddFunc(q, obj) == enqueueEvan(q, obj)
EvanUpdateFunc(q, old, new) == enqueueEvan(q, new)

\* a faulty UpdateFunc of a child informer: every Updated event is handled
ChildUpdateFuncAlways(q, old, new) == handleObjectPayload(q, Object(new))

\* NewController lines 164-177 and 180-191: the handlers of the Deployment
\* and the Service informer
ChildAddFunc(q, obj) == handleObjectPayload(q, Object(obj))
ChildUpdateFunc(q, old, new) ==
    IF new.resourceVersion = old.resourceVersion THEN q
    ELSE handleObjectPayload(q, Object(new))
ChildDeleteFunc(q, obj) == handleObjectPayload(q, obj)

\* the notification a handler was last called with is kept next to the
\* queue: informer, event and the name of the object
Notified(q, informer, event, n) == [q EXCEPT !.note = <<informer, event, n>>]

\* the periodic resync of the Evan informer: an Updated event with the cached
\* object as old and as new
ResyncEvan(n) ==
    /\ n \in DOMAIN evanCache
    /\ workqueue' = Notified(EvanUpdateFunc(workqueue, evanCache[n], evanCache[n]),
                             "Evan", "Resync", n)
    /\ UNCHANGED <<storeVars, cacheVars, runVars, workerVars, idem>>

\* the periodic resync of a child informer
ResyncChild(kind, n) ==
    /\ \/ /\ kind = "Deployment" /\ n \in DOMAIN deplCache
          /\ workqueue' = Notified(ChildUpdateFunc(workqueue, deplCache[n], deplCache[n]),
                                   kind, "Resync", n)
       \/ /\ kind = "Service" /\ n \in DOMAIN svcCache
          /\ workqueue' = Notified(ChildUpdateFunc(workqueue, svcCache[n], svcCache[n]),
                                   kind, "Resync", n)
    /\ UNCHANGED <<storeVars, cacheVars, runVars, workerVars, idem>>

\* a child informer delivers the change of a stored child: Added for a new
\* one, Updated with the cached and the stored object for a changed one
ChildChanged(kind, n) ==
    /\ \/ /\ kind = "Deployment" /\ n \in DOMAIN deplStore
          /\ ~Fresh(deplCache, deplStore, n)
          /\ deplCache' = Put(deplCache, n, deplStore[n])
          /\ workqueue' = IF n \in DOMAIN deplCache
                          THEN Notified(ChildUpdateFunc(workqueue, deplCache[n], deplStore[n]),
                                        kind, "Updated", n)
                          ELSE Notified(ChildAddFunc(workqueue, deplStore[n]),
                                        kind, "Added", n)
          /\ UNCHANGED svcCache
       \/ /\ kind = "Service" /\ n \in DOMAIN svcStore
          /\ ~Fresh(svcCache, svcStore, n)
          /\ svcCache' = Put(svcCache, n, svcStore[n])
          /\ workqueue' = IF n \in DOMAIN svcCache
                          THEN Notified(ChildUpdateFunc(workqueue, svcCache[n], svcStore[n]),
                                        kind, "Updated", n)
                          ELSE Notified(ChildAddFunc(workqueue, svcStore[n]),
                                        kind, "Added", n)
          /\ UNCHANGED deplCache
    /\ UNCHANGED <<storeVars, evanCache, synced, runVars, workerVars, idem>>

\* a child informer delivers the deletion of a child: the object itself when
\* it saw the deletion, a tombstone with the last known state when it missed
\* it and found the child gone at a relist
ChildDeleted(kind, n, tombstone) ==
    /\ \/ /\ kind = "Deployment" /\ n \in DOMAIN deplCache /\ n \notin DOMAIN deplStore
          /\ deplCache' = Del(deplCache, n)
          /\ workqueue' = Notified(
                              ChildDeleteFunc(workqueue,
                                  IF tombstone
                                  THEN DeletedFinalStateUnknown(Object(deplCache[n]))
                                  ELSE Object(deplCache[n])),
                              kind, IF tombstone THEN "Tombstone" ELSE "Deleted", n)
          /\ UNCHANGED svcCache
       \/ /\ kind = "Service" /\ n \in DOMAIN svcCache /\ n \notin DOMAIN svcStore
          /\ svcCache' = Del(svcCache, n)
          /\ workqueue' = Notified(
                              ChildDeleteFunc(workqueue,
                                  IF tombstone
                                  THEN DeletedFinalStateUnknown(Object(svcCache[n]))
                                  ELSE Object(svcCache[n])),
                              kind, IF tombstone THEN "Tombstone" ELSE "Deleted", n)
          /\ UNCHANGED deplCache
    /\ UNCHANGED <<storeVars, evanCache, synced, runVars, workerVars, idem>>

\* handleObject is called with a payload that holds no resource object
InvalidPayload(obj) ==
    /\ workqueue' = Notified(handleObjectPayload(workqueue, obj), "", "Invalid", obj.is)
    /\ events' = events \cup Reported(obj)
    /\ UNCHANGED <<storeVars, cacheVars, runVars, pc, loc, crashed, calls, book, idem>>

\* The handlers alone, from the state a first reconciliation leaves: the
\* parent and both children stored and cached, the queue empty, the worker
\* waiting.  The world edits and deletes the parent, creates a child of its
\* own and deletes children; the informers deliver changes, deletions and
\* resyncs
HandlerParent == "p1"
HandlerChild == "p1-1000"
HandlerSpecs == {MakeSpec("", 1, "img:1", 80, PolicyWipeOut)}
HandlerInit ==
    /\ evanStore = (HandlerParent :>
                      [ZeroEvan EXCEPT !.name = HandlerParent, !.namespace = Namespace,
                                       !.uid = 1, !.resourceVersion = 4,
                                       !.creationTimestamp = 1000,
                                       !.spec = MakeSpec("", MaxReplicas, "img:1", 80,
                                                         PolicyWipeOut)])
    /\ deplStore = (HandlerChild :>
                      StoredDeployment(
                          [newDeployment(evanStore[HandlerParent], HandlerChild)
                             EXCEPT !.ownerReferences =
                                        <<NewControllerRef(evanStore[HandlerParent])>>],
                          2, 0))
    /\ svcStore = (HandlerChild :>
                     [newService(evanStore[HandlerParent], HandlerChild, 80)
                        EXCEPT !.ownerReferences =
                                   <<NewControllerRef(evanStore[HandlerParent])>>,
                               !.resourceVersion = 3])
    /\ lastRv = 4 /\ ext = 0
    /\ evanCache = evanStore /\ deplCache = deplStore /\ svcCache = svcStore
    /\ synced = Kinds
    /\ workqueue = [note |-> <<>>] @@ NewRateLimitingQueue
    /\ runPc = "Running" /\ ctxDone = FALSE /\ workers = 1
    /\ pc = [w \in Workers |-> IF w = 1 THEN "Get" ELSE "off"]
    /\ loc = [w \in Workers |-> ZeroLoc]
    /\ crashed = FALSE
    /\ events = {}
    /\ calls = [w \in Workers |-> <<>>]
    /\ book = [w \in Workers |-> ""]
    /\ idem = (HandlerParent :> [phase |-> 2, depl |-> <<>>, svc |-> <<>>])
HandlerNext ==
    \/ \E n \in DOMAIN evanStore \cup DOMAIN evanCache : InformEvan(n)
    \/ \E n \in DOMAIN evanCache : ResyncEvan(n)
    \/ \E kind \in {"Deployment", "Service"} :
         \/ \E n \in {HandlerChild, RouterChild} : ChildChanged(kind, n)
         \/ \E n \in {HandlerChild, RouterChild} : ResyncChild(kind, n)
         \/ \E n \in {HandlerChild, RouterChild}, tombstone \in BOOLEAN :
              ChildDeleted(kind, n, tombstone)
         \/ \E refs \in RouterRefs : ExternalCreateChild(kind, RouterChild, refs)
         \/ \E n \in {HandlerChild, RouterChild} : ExternalDeleteChild(kind, n)
    \/ \E a \in 0 .. 1 : DeploymentStatus(HandlerChild, a)
    \/ \E s \in HandlerSpecs : AuthorUpdate(HandlerParent, s)
    \/ AuthorDelete(HandlerParent)
    \/ \E obj \in InvalidPayloads : InvalidPayload(obj)
HandlerSpec == HandlerInit /\ [][HandlerNext]_vars

\* The two name functions alone, as syncHandler calls them (lines 367-369 and
\* 446) on an Evan of any name, overrides and creation time.
NamingNames == {"a", "p1", "web"}
NamingOverrides == {"", "b", "db"}
NamingStamps == {-1, 0, 10, 1000}

NamingInit ==
    /\ evanStore = <<>> /\ deplStore = <<>> /\ svcStore = <<>>
    /\ lastRv = 0 /\ ext = 0
    /\ evanCache = <<>> /\ deplCache = <<>> /\ svcCache = <<>>
    /\ synced = {}
    /\ workqueue = NewRateLimitingQueue
    /\ runPc = "WaitForCacheSync" /\ ctxDone = FALSE /\ workers = NumWorkers
    /\ pc = [w \in Workers |-> "off"]
    /\ crashed = FALSE
    /\ events = {}
    /\ calls = [w \in Workers |-> <<>>]
    /\ book = [w \in Workers |-> ""]
    /\ idem = <<>>
    /\ \E p \in NamingNames, o1 \in NamingOverrides, o2 \in NamingOverrides,
          t \in NamingStamps :
          loc = [w \in Workers |->
                   [ZeroLoc EXCEPT
                       !.name = p,
                       !.Evan = [ZeroEvan EXCEPT
                                    !.name = p, !.namespace = Namespace,
                                    !.creationTimestamp = t,
                                    !.spec = [MakeSpec(o1, MaxReplicas, "img:1", 80, "")
                                                EXCEPT !.serviceConfig.name = o2]]]]

DeriveNames(w) ==
    /\ loc[w].deploymentName = ""
    /\ LET Evan == loc[w].Evan
           ts == Evan.creationTimestamp
       IN  loc' = [loc EXCEPT
                     ![w].resourceCreationTimestamp = ts,
                     ![w].deploymentName =
                         generateDeploymentName(Evan.name, Evan.spec.deploymentConfig.name, ts),
                     ![w].serviceName =
                         generateServiceName(Evan.name, Evan.spec.serviceConfig.name, ts)]
    /\ UNCHANGED <<storeVars, cacheVars, workqueue, runVars, pc, crashed, events, calls,
                   book, idem>>

NamingNext == \E w \in Workers : DeriveNames(w)
NamingSpec == NamingInit /\ [][NamingNext]_vars

\* ------------------------------------------------------------------ claims
Keys == {EvanKey(n) : n \in ParentNames}

\* the key the event of a child is to enqueue, as a set: the child's namespace
\* and the name of its controlling owner, when that owner is of kind Evan and
\* an Evan of that name is in the cache; else nothing
OwnerKeys(child) ==
    {<<child.namespace, child.ownerReferences[i].name>> :
        i \in {j \in DOMAIN child.ownerReferences :
                  /\ child.ownerReferences[j].controller
                  /\ child.ownerReferences[j].kind = KindEvan
                  /\ child.ownerReferences[j].name \in DOMAIN evanCache}}

\* the queue after the event of a child
AfterChildEvent(child) ==
    IF OwnerKeys(child) = {} THEN workqueue
    ELSE Add(workqueue, CHOOSE k \in OwnerKeys(child) : TRUE)

\* C11: owner resolution.  The Added, Updated or Deleted event of a Deployment
\* or a Service enqueues exactly the key of namespace and owner name when the
\* child's controlling owner is of kind Evan and in the cache, and leaves the
\* queue as it was otherwise.
C11_OwnerResolution ==
    [][/\ \A n \in DOMAIN deplStore \cup DOMAIN deplCache :
            InformDeployment(n)
            => workqueue' = AfterChildEvent(IF n \in DOMAIN deplStore
                                            THEN deplStore[n] ELSE deplCache[n])
       /\ \A n \in DOMAIN svcStore \cup DOMAIN svcCache :
            InformService(n)
            => workqueue' = AfterChildEvent(IF n \in DOMAIN svcStore
                                            THEN svcStore[n] ELSE svcCache[n])]_vars

\* C11, the case: the child is gone from store and cache, its Deleted event
\* delivered, and the key of its owner, in the queue since the Evan was
\* listed, has got an Add from the events of the child.
C11_Witness ==
    /\ RouterParent \in DOMAIN evanCache
    /\ RouterChild \notin DOMAIN deplStore \cup DOMAIN deplCache
    /\ RouterChild \notin DOMAIN svcStore \cup DOMAIN svcCache
    /\ lastRv > 1
    /\ EvanKey(RouterParent) \in workqueue.collapsed

\* the decimal text of the creation times in use, written out
StampText == (-1 :> "-1") @@ (0 :> "0") @@ (10 :> "10") @@ (1000 :> "1000")

\* the name the spec gives a child: "p-t", or "p-o-t" with an override o
ExpectedName(p, o, t) ==
    IF o = "" THEN p \o "-" \o StampText[t]
    ELSE p \o "-" \o o \o "-" \o StampText[t]

\* C12: deterministic naming.  The Deployment name and the Service name
\* derived for a parent p with override o and creation time t are "p-t" when
\* o is empty and "p-o-t" otherwise; parent "a" at 1000 gives "a-1000", and
\* "a-b-1000" with override "b".
C12_DeterministicNaming ==
    \A w \in Workers :
        loc[w].deploymentName # ""
        => LET p == loc[w].Evan.name
               t == loc[w].Evan.creationTimestamp
               od == loc[w].Evan.spec.deploymentConfig.name
               os == loc[w].Evan.spec.serviceConfig.name
           IN  /\ loc[w].deploymentName = ExpectedName(p, od, t)
               /\ loc[w].serviceName = ExpectedName(p, os, t)
               /\ (p = "a" /\ t = 1000 /\ od = "") => loc[w].deploymentName = "a-1000"
               /\ (p = "a" /\ t = 1000 /\ od = "b") => loc[w].deploymentName = "a-b-1000"
               /\ (p = "a" /\ t = 1000 /\ os = "") => loc[w].serviceName = "a-1000"
               /\ (p = "a" /\ t = 1000 /\ os = "b") => loc[w].serviceName = "a-b-1000"

\* C12, the case: the names of parent "a" created at 1000 have been derived,
\* the Deployment's with override "b", the Service's with none.
C12_Witness ==
    \E w \in Workers :
        /\ loc[w].Evan.name = "a"
        /\ loc[w].deploymentName = "a-b-1000"
        /\ loc[w].serviceName = "a-1000"

\* worker w is inside syncHandler
Reconciling(w) ==
    pc[w] \in {"Sync", "CreateDeployment", "UpdateDeploymentReplicas",
               "UpdateDeploymentName", "UpdateDeploymentImage", "Refetch",
               "GetService", "CreateService", "UpdateServiceName",
               "UpdateServicePort", "UpdateEvan", "Panic"}

\* worker w has a key in hand: in syncHandler, or between its return and Done
Holding(w) == Reconciling(w) \/ pc[w] \in {"Return", "Done"}

\* how many entries of the queue are item
Pending(item) ==
    Cardinality({i \in DOMAIN workqueue.queue : workqueue.queue[i] = item})

\* C1: per-key exclusivity.  No two workers are inside syncHandler for the
\* same key at the same time.
C1_PerKeyExclusivity ==
    \A w1 \in Workers, w2 \in Workers :
        (w1 # w2 /\ Reconciling(w1) /\ Reconciling(w2)) => loc[w1].obj # loc[w2].obj

\* C1, the case: a worker is inside syncHandler for a key for which an Add
\* has arrived meanwhile, and another worker is idle at Get.
C1_Witness ==
    \E w1 \in Workers, w2 \in Workers :
        /\ Reconciling(w1)
        /\ loc[w1].obj \in workqueue.dirty
        /\ pc[w2] = "Get"

\* C3: dedup.  A key that is dirty and not in flight has exactly one entry in
\* the queue, however many Adds it got; a key in flight has none, however many
\* Adds it got, and so gets exactly one when Done finds it dirty.
C3_Dedup ==
    \A k \in Keys :
        Pending(k) = IF k \in workqueue.dirty /\ k \notin workqueue.processing
                     THEN 1 ELSE 0

\* C3, the case: a key in flight has got two Adds or more since it was handed
\* out.
C3_Witness ==
    \E k \in Keys :
        /\ k \in workqueue.processing
        /\ k \in workqueue.collapsed

\* C2: no change is lost mid-reconcile.  Once an Add has found a key in
\* flight, the key is handed out again and a new pass for it begins, unless
\* the queue is shut down.
C2_NoChangeLost ==
    \A k \in Keys :
        (k \in workqueue.processing /\ k \in workqueue.dirty)
            ~> \/ workqueue.shuttingDown
               \/ \E w \in Workers :
                    pc[w] = "Sync" /\ loc[w].obj = k /\ k \notin workqueue.dirty

\* C4: idempotence.  The pass that follows a successful pass, both begun with
\* the caches equal to the store and with no external edit since the first
\* began, issues no Create and no Update and leaves the children as they were
\* (a pass in which the store failed a write is left aside).
C4_Idempotence ==
    \A w \in Workers :
        (/\ Holding(w)
         /\ loc[w].name \in DOMAIN idem
         /\ idem[loc[w].name].phase = 3
         /\ \A i \in DOMAIN calls[w] :
               calls[w][i].op \in {"Create", "Update"} => calls[w][i].ok)
        => /\ \A i \in DOMAIN calls[w] : calls[w][i].op \notin {"Create", "Update"}
           /\ deplStore = idem[loc[w].name].depl
           /\ svcStore = idem[loc[w].name].svc

\* the pass of worker w found, in the lister, a Deployment of the derived name
\* that the Evan of its first lookup, of policy WipeOut, does not control
ForeignWorkloadFound(w) ==
    /\ Holding(w)
    /\ pc[w] # "Sync"
    /\ loc[w].serviceName = ""
    /\ loc[w].deploymentName # ""
    /\ loc[w].deployment.name = loc[w].deploymentName
    /\ loc[w].Evan.spec.deletionPolicy = PolicyWipeOut
    /\ ~IsControlledBy(loc[w].deployment, loc[w].Evan)

\* C5: conflict detection.  A pass that finds such a Deployment returns the
\* ownership error of line 401, the warning event is recorded on the Evan, the
\* pass issues no Create and no Update of the Deployment, and the worker does
\* not Forget the key.
C5_ConflictDetection ==
    \A w \in Workers :
        ForeignWorkloadFound(w)
        => /\ pc[w] \in {"Return", "Done"}
           /\ loc[w].line = 401
           /\ loc[w].err # ""
           /\ Warning(loc[w]) \in events
           /\ \A i \in DOMAIN calls[w] : calls[w][i].kind # "Deployment"
           /\ book[w] # "Forget"

\* C5, the case: such a pass has returned and the worker has put the key back
\* rate limited.
C5_Witness ==
    \E w \in Workers :
        /\ ForeignWorkloadFound(w)
        /\ pc[w] = "Done"
        /\ book[w] = "AddRateLimited"

\* C6: status propagation.  After a pass has returned from its last line
\* without error, the stored Evan's status.availableReplicas is the
\* availableReplicas of the Deployment the pass had in hand.
C6_StatusPropagation ==
    \A w \in Workers :
        (/\ pc[w] \in {"Return", "Done"}
         /\ loc[w].line = 510
         /\ loc[w].name \in DOMAIN evanStore
         /\ evanStore[loc[w].name].uid = loc[w].Evan.uid)
        => evanStore[loc[w].name].status.availableReplicas
              = loc[w].deployment.availableReplicas

\* C7: every write of the reconciler to an Evan leaves the stored spec as it
\* was.
C7_ParentWriteKeepsSpec ==
    [][\A w \in Workers :
          UpdateEvan(w)
          => \A n \in DOMAIN evanStore \cap DOMAIN evanStore' :
                evanStore'[n].spec = evanStore[n].spec]_vars

\* C8: no step of a worker changes an object of an informer's cache.
C8_CacheNeverMutated ==
    [][(\E w \in Workers : runWorker(w))
          => UNCHANGED <<evanCache, deplCache, svcCache>>]_vars

\* the pass of worker w has an Evan in hand whose service port is zero
PortZeroPass(w) ==
    /\ Holding(w)
    /\ loc[w].Evan.name # ""
    /\ loc[w].Evan.spec.serviceConfig.port = 0

ControllerUids(child) ==
    {child.ownerReferences[i].uid :
        i \in {j \in DOMAIN child.ownerReferences :
                  /\ child.ownerReferences[j].controller
                  /\ child.ownerReferences[j].kind = KindEvan}}

\* C13: at most one child of each kind per parent.  No two Deployments in the
\* store, and no two Services, are controlled by the same Evan.
C13_AtMostOneChild ==
    /\ \A n1 \in DOMAIN deplStore, n2 \in DOMAIN deplStore :
          ControllerUids(deplStore[n1]) \cap ControllerUids(deplStore[n2]) # {} => n1 = n2
    /\ \A n1 \in DOMAIN svcStore, n2 \in DOMAIN svcStore :
          ControllerUids(svcStore[n1]) \cap ControllerUids(svcStore[n2]) # {} => n1 = n2

\* C14: name stability.  The Deployment name a pass derives for an Evan is
\* the name of the Deployment an earlier pass created for that Evan: every
\* stored Deployment that the Evan in hand controls has the derived name.
C14_NameStability ==
    \A w \in Workers :
        (Reconciling(w) /\ pc[w] # "Sync" /\ loc[w].Evan.name # "")
        => \A n \in DOMAIN deplStore :
              loc[w].Evan.uid \in ControllerUids(deplStore[n]) => n = loc[w].deploymentName

\* C15: worker bookkeeping.  When syncHandler returns success the worker
\* Forgets the key (no failure count is left) and does not put it back: the
\* queue, its dirty set and the waiting keys stay as they were.  When it
\* returns an error the worker calls AddRateLimited (the failure is counted
\* and, unless the queue is shutting down, the key waits for its delay), and
\* after the deferred Done the worker is back at Get.  processNextWorkItem
\* returns false, ending the loop of runWorker, only when Get reports the
\* shutdown of the emptied queue.
C15_WorkerBookkeeping ==
    [][\A w \in Workers :
         /\ (pc[w] = "Return" /\ pc'[w] = "Done" /\ loc[w].err = "")
            => /\ book'[w] = "Forget"
               /\ NumRequeues(workqueue', loc[w].obj) = 0
               /\ workqueue'.queue = workqueue.queue
               /\ workqueue'.dirty = workqueue.dirty
               /\ workqueue'.waiting = workqueue.waiting
         /\ (pc[w] = "Return" /\ pc'[w] = "Done" /\ loc[w].err # "")
            => /\ book'[w] = "AddRateLimited"
               /\ NumRequeues(workqueue', loc[w].obj) >= 1
               /\ workqueue.shuttingDown \/ loc[w].obj \in workqueue'.waiting
         /\ (pc[w] = "Return" /\ pc'[w] # "Return") => pc'[w] = "Done"
         /\ (pc[w] = "Done" /\ pc'[w] # "Done") => pc'[w] = "Get"
         /\ (pc[w] # "Exited" /\ pc'[w] = "Exited")
            => /\ pc[w] = "Get"
               /\ workqueue.shuttingDown
               /\ workqueue.queue = <<>>
      ]_vars

\* C15 (witness): a pass has failed, the worker has called AddRateLimited and
\* the key waits for its delay, while the worker is about to loop
C15_Witness ==
    \E w \in Workers :
        /\ pc[w] = "Done"
        /\ loc[w].err # ""
        /\ book[w] = "AddRateLimited"
        /\ loc[w].obj \in workqueue.waiting

\* a Create or an Update that worker w sent to the store in the pass it is in
\* came back with an error
FailedStoreCall(w) ==
    \E i \in DOMAIN calls[w] :
        /\ ~calls[w][i].ok
        /\ calls[w][i].op \in {"Create", "Update"}

\* C16: transient store errors.  A pass in which a Create or an Update of the
\* Deployment or of the Service, or the Update that writes the status of the
\* Evan, returned an error ends with an error, and the worker puts the key
\* back with AddRateLimited.
C16_TransientStoreErrors ==
    \A w \in Workers :
        (pc[w] = "Done" /\ FailedStoreCall(w))
        => (loc[w].err # "" /\ book[w] = "AddRateLimited")

\* C17: retry liveness.  A key whose pass has just failed (syncHandler
\* returned an error and the worker is at its deferred Done) is handed out to
\* a worker again, unless the queue is shut down; as this holds for every
\* failed pass, it goes on for as long as the passes of the key fail.
C17_RetryLiveness ==
    \A k \in Keys :
        (\E w \in Workers : pc[w] = "Done" /\ loc[w].obj = k /\ loc[w].err # "")
            ~> \/ workqueue.shuttingDown
               \/ \E w \in Workers : pc[w] = "Sync" /\ loc[w].obj = k

\* C17 (witness): a key that has failed twice in a row, and was put back with
\* its delay each time, is handed out for a third pass
C17_Witness ==
    \E k \in Keys, w \in Workers :
        /\ pc[w] = "Sync"
        /\ loc[w].obj = k
        /\ NumRequeues(workqueue, k) = 2
        /\ k \notin workqueue.waiting

\* worker w holds the malformed item m
HoldsMalformed(w, m) == pc[w] \in {"Sync", "Return", "Done"} /\ loc[w].obj = m

\* C18: a malformed work item is never retried.  The pass of an item that is
\* not a string, or whose text is not a valid key, makes no call to the store
\* and reads no cache (it creates nothing, updates nothing and never gets past
\* the split of the key); the worker calls Forget and never AddRateLimited;
\* and once the item has been handed out it is never again in the queue, in
\* its dirty set or waiting for a delay.
C18_MalformedNeverRetried ==
    [][\A m \in Malformed :
         /\ \A w \in Workers :
              /\ HoldsMalformed(w, m)
                 => /\ calls[w] = <<>>
                    /\ loc[w].Evan = ZeroEvan
                    /\ loc[w].line \in {0, 351}
                    /\ loc[w].err = ""
                    /\ pc'[w] # pc[w] => storeVars' = storeVars
                    /\ m \notin workqueue'.waiting
                    /\ NumRequeues(workqueue', m) = 0
                    /\ pc'[w] \in {"Sync", "Return", "Done", "Get"}
              /\ (HoldsMalformed(w, m) /\ pc[w] = "Done") => book[w] = "Forget"
         /\ (m \notin Range(workqueue.queue) /\ m \notin workqueue.dirty)
            => (m \notin Range(workqueue'.queue) /\ m \notin workqueue'.dirty)
      ]_vars

\* C18 (witness): both malformed items, the one that is not a string and the
\* one of three parts, have been handed out and forgotten, and are gone
C18_Witness ==
    /\ \E w \in Workers : HoldsMalformed(w, <<>>) /\ pc[w] = "Done" /\ book[w] = "Forget"
    /\ \E w \in Workers : HoldsMalformed(w, <<"a", "b", "c">>) /\ pc[w] = "Done"
                          /\ book[w] = "Forget"
    /\ Malformed \cap Range(workqueue.queue) = {}

\* worker w is in, or has just ended, a pass whose lookup of the Evan in the
\* cache (line 355) found nothing
ParentNotFound(w) == Holding(w) /\ loc[w].line = 361

\* C19: not-found parent.  A pass whose key names an Evan that is not in the
\* cache returns success at once: it has sent no call to the store (no Create,
\* no Update), the steps of its worker change no store, and the worker forgets
\* the key and does not put it back: its step after the return leaves the
\* queue, the dirty set and the waiting keys as they were and leaves no
\* failure count.
C19_NotFoundParent ==
    [][\A w \in Workers :
         ParentNotFound(w)
         => /\ calls[w] = <<>>
            /\ loc[w].err = ""
            /\ pc'[w] # pc[w] => storeVars' = storeVars
            /\ pc[w] \in {"Return", "Done"}
            /\ pc[w] = "Done" => book[w] = "Forget"
            /\ (pc[w] = "Return" /\ pc'[w] = "Done")
               => /\ book'[w] = "Forget"
                  /\ NumRequeues(workqueue', loc[w].obj) = 0
                  /\ workqueue'.queue = workqueue.queue
                  /\ workqueue'.dirty = workqueue.dirty
                  /\ workqueue'.waiting = workqueue.waiting
      ]_vars

\* C19 (witness): the author has deleted the Evan, the cache has dropped it,
\* and the pass for its key has returned and the key is forgotten
C19_Witness ==
    \E w \in Workers :
        /\ ParentNotFound(w)
        /\ pc[w] = "Done"
        /\ book[w] = "Forget"
        /\ loc[w].name \notin DOMAIN evanCache
        /\ loc[w].name \notin DOMAIN evanStore

\* C20: graceful stop.  Run returns only after the passes in flight have
\* ended and their Done was called: once Run has returned no worker holds a
\* key.
C20_GracefulStop ==
    runPc = "Returned" => \A w \in Workers : ~Holding(w)

\* C20, the part that holds: Run returns only once the context is done, and
\* when it has returned the queue is shut down.
C20_RunBlocksUntilCancelled ==
    runPc \in {"Returned", "Failed"} => (ctxDone /\ workqueue.shuttingDown)

\* C21: startup gating.  A worker exists, and so a pass runs, only when all
\* three informers have synced; Run leaves WaitForCacheSync for the start of
\* the workers only with the three synced, and otherwise only with the context
\* done, returning an error; and when Run has returned that error no worker
\* was started and the queue is shut down.
C21_StartupGating ==
    [][/\ (\E w \in Workers : pc'[w] # "off") => synced' = Kinds
       /\ (runPc = "WaitForCacheSync" /\ runPc' # runPc)
          => IF runPc' = "Running" THEN synced = Kinds
             ELSE /\ runPc' = "Failed"
                  /\ ctxDone
                  /\ workqueue'.shuttingDown
       /\ runPc' = "Failed"
          => /\ \A w \in Workers : pc'[w] = "off"
             /\ workqueue'.shuttingDown
      ]_vars

\* C21 (witness): the context was cancelled with an informer still not synced
\* and Run has returned its error
C21_Witness ==
    /\ runPc = "Failed"
    /\ synced # Kinds
    /\ ctxDone
    /\ workqueue.shuttingDown
    /\ \A w \in Workers : pc[w] = "off"

\* the workers Run started
Started == {w \in Workers : w <= workers}

\* C22: worker termination.  Once the context is cancelled and the queue is
\* shut down, every worker Run started leaves its loop; and a worker leaves
\* its loop only from Get, on the shutdown of the emptied queue, so with no
\* item in hand: the Done of the last item it took has been called.
C22_WorkerTermination ==
    /\ (runPc = "Returned") ~> (\A w \in Started : pc[w] = "Exited")
    /\ [][\A w \in Workers :
            (pc[w] # "Exited" /\ pc'[w] = "Exited")
            => /\ pc[w] = "Get"
               /\ workqueue.shuttingDown
               /\ workqueue.queue = <<>>
               /\ ~Holding(w)
         ]_vars

\* C22, the behaviours in which no pass panics: there every worker leaves its
\* loop after the shutdown.
C22_TerminationUnlessCrashed ==
    (runPc = "Returned") ~> (crashed \/ \A w \in Started : pc[w] = "Exited")

\* the per-key backoff of the n-th failure in a row, written out: 5 ms doubled
\* n - 1 times, which passes 1000 s at the 19th failure
BackoffTable ==
    <<5, 10, 20, 40, 80, 160, 320, 640, 1280, 2560, 5120, 10240, 20480, 40960,
      81920, 163840, 327680, 655360>>
ExpectedBackoff(n) == IF n <= Len(BackoffTable) THEN BackoffTable[n] ELSE 1000000

\* the delay of the shared bucket for a reservation made with t tokens in it:
\* none while a token is left, otherwise 20 ms for each token owed
ExpectedBucketDelay(t) == IF t >= 1 THEN 0 ELSE 20 * (1 - t)

\* C23: rate-limit policy.  The delay given to a key on its n-th failure in a
\* row is the larger of its exponential backoff (5 ms doubled n - 1 times, at
\* most 1000 s) and of the delay of the bucket shared by all keys (50 a second,
\* burst 300); it is never smaller than either.
C23_RateLimitPolicy ==
    workqueue.nth >= 1
    => /\ workqueue.when >= ExpectedBackoff(workqueue.nth)
       /\ workqueue.when >= ExpectedBucketDelay(workqueue.had)
       /\ workqueue.when \in {ExpectedBackoff(workqueue.nth),
                              ExpectedBucketDelay(workqueue.had)}

\* C23 (witness): the bucket decides: a first failure, whose backoff is 5 ms,
\* is delayed by 40 ms because the failures of all keys have left the shared
\* bucket one token in debt
C23_Witness ==
    /\ workqueue.nth = 1
    /\ workqueue.had = -1
    /\ workqueue.when = 40

\* C23 (witness of the ceiling): the 19th failure in a row is delayed by 1000 s
C23_WitnessCeiling ==
    /\ workqueue.nth = 19
    /\ workqueue.when = 1000000

\* the limiter has just forgotten key k
Forgotten(k) == workqueue.item = k /\ workqueue.nth = 0

\* C24: backoff reset.  When the limiter has forgotten key k its failure
\* count is zero, and the Forget left the counts of the other keys as they
\* were; and the failure of a key that has no count is its first: it is
\* delayed by the base backoff of 5 ms, or by the shared bucket when that asks
\* for more, whatever the number of failures that came before the Forget.
C24_BackoffReset ==
    [][\A k \in RateKeys :
         /\ Forgotten(k)'
            => /\ NumRequeues(workqueue', k) = 0
               /\ ratelimiter(NumRequeues(workqueue', k), BucketBurst) = 5
               /\ ~Forgotten(k)
                  => \A other \in RateKeys \ {k} :
                       NumRequeues(workqueue', other) = NumRequeues(workqueue, other)
         /\ (NumRequeues(workqueue, k) = 0 /\ NumRequeues(workqueue', k) > 0)
            => /\ workqueue'.item = k
               /\ workqueue'.nth = 1
               /\ workqueue'.when = MaxOf(5, ExpectedBucketDelay(workqueue.tokens))
      ]_vars

\* C24 (witness): a key is forgotten after the two keys have failed five
\* times between them, and the other key keeps its count of two
C24_Witness ==
    \E k \in RateKeys :
        /\ Forgotten(k)
        /\ NumRequeues(workqueue, k) = 0
        /\ workqueue.tokens = BucketBurst - 5
        /\ \E other \in RateKeys \ {k} : NumRequeues(workqueue, other) = 2

\* C25: no reconcile failure crashes the process.  No pass ends in a panic:
\* no worker is at a panic of syncHandler and the process has not died.
C25_NoPanic ==
    /\ ~crashed
    /\ \A w \in Workers : pc[w] \notin {"Panic", "Crashed"}

\* C25, the second way: a pass of an Evan whose replicas are set does not
\* panic either.
C25_NoPanicWithReplicasSet ==
    \A w \in Workers :
        pc[w] = "Panic" => loc[w].Evan.spec.deploymentConfig.replicas = NilInt32

\* ---------------------------------------------------------------------------
\* C26  Convergence.

\* the parent's spec is valid: port non-zero, replicas set and non-zero,
\* image non-empty
ValidSpec(spec) ==
    /\ spec.serviceConfig.port # 0
    /\ spec.deploymentConfig.replicas # NilInt32
    /\ spec.deploymentConfig.replicas # 0
    /\ spec.deploymentConfig.image # ""

\* the children of the parent, by their derived names
DeploymentOf(e) ==
    generateDeploymentName(e.name, e.spec.deploymentConfig.name, e.creationTimestamp)
ServiceOf(e) ==
    generateServiceName(e.name, e.spec.serviceConfig.name, e.creationTimestamp)

\* no child of the derived names is held by somebody else while the parent
\* asks for ownership
NoOwnershipConflict(e) ==
    DefaultDeletionPolicy(e).spec.deletionPolicy = PolicyWipeOut =>
        /\ DeploymentOf(e) \in DOMAIN deplStore => IsControlledBy(deplStore[DeploymentOf(e)], e)
        /\ ServiceOf(e) \in DOMAIN svcStore => IsControlledBy(svcStore[ServiceOf(e)], e)

\* the Workload's replica count and image and the Endpoint's port are the
\* ones the parent declares
Converged(e) ==
    /\ DeploymentOf(e) \in DOMAIN deplStore
    /\ deplStore[DeploymentOf(e)].replicas = e.spec.deploymentConfig.replicas
    /\ Len(deplStore[DeploymentOf(e)].containers) >= 1
    /\ deplStore[DeploymentOf(e)].containers[1].image = e.spec.deploymentConfig.image
    /\ ServiceOf(e) \in DOMAIN svcStore
    /\ Len(svcStore[ServiceOf(e)].ports) >= 1
    /\ svcStore[ServiceOf(e)].ports[1].port = e.spec.serviceConfig.port

ConvergeCase ==
    /\ ConvergeParent \in DOMAIN evanStore
    /\ ValidSpec(evanStore[ConvergeParent].spec)
    /\ NoOwnershipConflict(evanStore[ConvergeParent])
    /\ ~ctxDone

\* C26: while a parent with a valid spec exists, nobody else holds its
\* children and the controller is not told to stop, the store's faults and
\* the author's edits being finitely many, the Workload's replicas and image
\* and the Endpoint's port eventually equal the parent's spec for good
C26_Convergence == <>[](ConvergeCase => Converged(evanStore[ConvergeParent]))

\* C26, the passes that end in a crash left aside
C26_ConvergenceUnlessCrashed ==
    <>[](ConvergeCase /\ ~crashed => Converged(evanStore[ConvergeParent]))

\* C26, for the behaviours in which no store call fails and the author makes
\* no edit after the start
C26_ConvergenceUndisturbed ==
    <>[](ConvergeCase /\ ext = 0 => Converged(evanStore[ConvergeParent]))

\* ---------------------------------------------------------------------------
\* C27  Owner reference under WipeOut.

\* worker w's step creates the child of that kind and name in the store
CreatesDeployment(w) ==
    /\ pc[w] = "CreateDeployment" /\ pc'[w] # pc[w]
    /\ loc[w].deploymentName \notin DOMAIN deplStore
    /\ loc[w].deploymentName \in DOMAIN deplStore'
CreatesService(w) ==
    /\ pc[w] = "CreateService" /\ pc'[w] # pc[w]
    /\ loc[w].serviceName \notin DOMAIN svcStore
    /\ loc[w].serviceName \in DOMAIN svcStore'

\* the parent the pass has in hand asks for WipeOut, by name or by leaving
\* the policy unset
WipeOutOrUnset(w) == loc[w].Evan.spec.deletionPolicy \in {"", PolicyWipeOut}

\* C27: when the parent's deletion policy is WipeOut or unset, every Workload
\* and every Endpoint a pass creates carries a controller owner reference to
\* that parent, also when the cached parent was replaced between the pass's
\* first lookup and its second
C27_OwnerReference ==
    [][\A w \in Workers :
          /\ CreatesDeployment(w) /\ WipeOutOrUnset(w) =>
                IsControlledBy(deplStore'[loc[w].deploymentName], loc[w].Evan)
          /\ CreatesService(w) /\ WipeOutOrUnset(w) =>
                IsControlledBy(svcStore'[loc[w].serviceName], loc[w].Evan)]_vars

\* C27, for the Workload alone
C27_WorkloadOwnerReference ==
    [][\A w \in Workers :
          CreatesDeployment(w) /\ WipeOutOrUnset(w) =>
             IsControlledBy(deplStore'[loc[w].deploymentName], loc[w].Evan)]_vars

\* C27, for an Endpoint whose parent, as looked up the second time, names
\* WipeOut or still carries the default the first lookup wrote into it
C27_EndpointOwnerReferenceDefaultKept ==
    [][\A w \in Workers :
          CreatesService(w) /\ loc[w].Evan.spec.deletionPolicy = PolicyWipeOut =>
             IsControlledBy(svcStore'[loc[w].serviceName], loc[w].Evan)]_vars

\* ---------------------------------------------------------------------------
\* C28  No owner reference under Delete.

\* the pass of worker w stopped at an ownership check
StoppedAtOwnershipCheck(w) == pc[w] = "Return" /\ loc[w].line \in {401, 484}

\* C28: when the parent's deletion policy is Delete, the Workload and the
\* Endpoint a pass creates carry no owner reference, and no pass stops at an
\* ownership check, whoever holds the child of the derived name
C28_NoOwnerReferenceUnderDelete ==
    [][\A w \in Workers :
          /\ CreatesDeployment(w) /\ loc[w].Evan.spec.deletionPolicy = PolicyDelete =>
                deplStore'[loc[w].deploymentName].ownerReferences = <<>>
          /\ CreatesService(w) /\ loc[w].Evan.spec.deletionPolicy = PolicyDelete =>
                svcStore'[loc[w].serviceName].ownerReferences = <<>>
          /\ StoppedAtOwnershipCheck(w)' =>
                loc'[w].Evan.spec.deletionPolicy # PolicyDelete]_vars

\* C28 happens: a pass for a parent with policy Delete found both children
\* in the store, neither controlled by the parent, and went past both
\* ownership checks without creating anything
C28_Witness ==
    \E w \in Workers :
        /\ pc[w] = "UpdateEvan"
        /\ loc[w].Evan.spec.deletionPolicy = PolicyDelete
        /\ loc[w].deploymentName \in DOMAIN deplStore
        /\ loc[w].serviceName \in DOMAIN svcStore
        /\ deplStore[loc[w].deploymentName].ownerReferences = <<>>
        /\ svcStore[loc[w].serviceName].ownerReferences = <<>>
        /\ ~IsControlledBy(loc[w].deployment, loc[w].Evan)
        /\ ~IsControlledBy(loc[w].service, loc[w].Evan)
        /\ \A i \in 1 .. Len(calls[w]) : calls[w][i].op # "Create"

\* ---------------------------------------------------------------------------
\* C29  No deletion by the Reconciler.

\* the verbs the passes of worker w have issued so far on the store
Verbs(w) == {calls[w][i].op : i \in 1 .. Len(calls[w])}

\* C29: no step of a worker issues a Delete on a Workload or an Endpoint:
\* the calls of a pass are Get, Create and Update, and every Workload and
\* Endpoint the store held before the step is still there after it
C29_NeverDeletes ==
    [][\A w \in Workers :
          pc'[w] # pc[w] =>
             /\ Verbs(w)' \subseteq {"Get", "Create", "Update"}
             /\ DOMAIN deplStore \subseteq DOMAIN deplStore'
             /\ DOMAIN svcStore \subseteq DOMAIN svcStore']_vars

\* C29 happens: a pass has changed a stored Workload by an Update and is
\* about to write the status
C29_Witness ==
    \E w \in Workers :
        /\ pc[w] = "UpdateEvan"
        /\ \E i \in 1 .. Len(calls[w]) :
              /\ calls[w][i].op = "Update" /\ calls[w][i].kind = "Deployment"
              /\ calls[w][i].ok /\ calls[w][i].changed
        /\ loc[w].deploymentName \in DOMAIN deplStore
        /\ loc[w].serviceName \in DOMAIN svcStore

\* ---------------------------------------------------------------------------
\* C30  Workload diff predicates.

UpdateDeploymentPlaces ==
    {"UpdateDeploymentReplicas", "UpdateDeploymentName", "UpdateDeploymentImage"}

\* the three predicates as the claim words them, on the locals of a pass:
\* the desired values against the Workload in hand
DiffFires(l) ==
    \/ /\ l.Evan.spec.deploymentConfig.replicas # NilInt32
       /\ l.Evan.spec.deploymentConfig.replicas # 0
       /\ l.Evan.spec.deploymentConfig.replicas # l.deployment.replicas
    \/ /\ l.Evan.spec.deploymentConfig.image # ""
       /\ \/ Len(l.deployment.containers) = 0
          \/ l.Evan.spec.deploymentConfig.image # l.deployment.containers[1].image
    \/ /\ l.deploymentName # ""
       /\ l.deploymentName # l.deployment.name

\* worker w's step found the Workload in the cache and passed the ownership
\* check
FoundDeployment(w) ==
    /\ pc[w] = "Sync"
    /\ pc'[w] \notin {"Sync", "CreateDeployment", "Return"}

\* worker w's step is an Update of the Workload that the store accepted
UpdatedDeployment(w) ==
    /\ pc[w] \in UpdateDeploymentPlaces /\ pc'[w] # pc[w]
    /\ calls'[w][Len(calls'[w])].ok

\* what a step of worker w does about the Workload: having found it, the
\* pass goes to an Update when fires, and on to the Endpoint when not; an
\* Update stores the desired object whole; no other step writes a Workload
DiffPredicates(w, fires) ==
    /\ FoundDeployment(w) =>
          /\ fires <=> pc'[w] \in UpdateDeploymentPlaces
          /\ ~fires => deplStore' = deplStore
    /\ pc[w] \in UpdateDeploymentPlaces /\ pc'[w] # pc[w] =>
          /\ Len(calls'[w]) = Len(calls[w]) + 1
          /\ calls'[w][Len(calls'[w])].op = "Update"
          /\ calls'[w][Len(calls'[w])].kind = "Deployment"
          /\ calls'[w][Len(calls'[w])].name = loc[w].updateDeployment.name
    /\ UpdatedDeployment(w) =>
          LET d == deplStore'[loc[w].updateDeployment.name]
              u == loc[w].updateDeployment
          IN  /\ d.name = u.name
              /\ d.replicas = u.replicas
              /\ d.containers = u.containers
              /\ d.ownerReferences = u.ownerReferences
    /\ pc'[w] # pc[w] /\ pc[w] \notin UpdateDeploymentPlaces \cup {"CreateDeployment"} =>
          deplStore' = deplStore

\* C30: in a pass that finds the Workload and no ownership conflict, an
\* Update of the Workload is issued exactly when the desired replicas are
\* set, non-zero and differ, or the desired image is non-empty and differs,
\* or the derived name is non-empty and differs; the Update carries the whole
\* desired object, and with no predicate firing the pass writes no Workload
C30_DiffPredicates ==
    [][\A w \in Workers : DiffPredicates(w, DiffFires(loc'[w]))]_vars

\* C30, for the passes whose parent has its replicas set
C30_DiffPredicatesReplicasSet ==
    [][\A w \in Workers :
          loc'[w].Evan.spec.deploymentConfig.replicas # NilInt32 =>
             DiffPredicates(w, DiffFires(loc'[w]))]_vars

\* ---------------------------------------------------------------------------
\* C31  Endpoint diff predicates.

UpdateServicePlaces == {"UpdateServiceName", "UpdateServicePort"}

\* the two predicates as the claim words them, on the locals of a pass: the
\* desired port and the derived name against the Endpoint in hand
EndpointDiffFires(l) ==
    \/ /\ l.servicePort # 0
       /\ \/ Len(l.service.ports) = 0
          \/ l.servicePort # l.service.ports[1].port
    \/ /\ l.serviceName # ""
       /\ l.serviceName # l.service.name

\* worker w's step got the Endpoint from the store and passed the ownership
\* check
FoundService(w) ==
    /\ pc[w] = "GetService"
    /\ pc'[w] \notin {"GetService", "CreateService", "Return"}

\* the Endpoint in hand differs from the desired one in its type, target
\* port or node port, and in nothing the predicates look at
ConfinedChange(l) ==
    /\ ~EndpointDiffFires(l)
    /\ \/ l.service.type # l.updateService.type
       \/ l.service.ports[1].targetPort # l.updateService.ports[1].targetPort
       \/ l.service.ports[1].nodePort # l.updateService.ports[1].nodePort

\* C31: in a pass that gets the Endpoint and finds no ownership conflict, an
\* Update of the Endpoint is issued exactly when the desired port is non-zero
\* and differs or the derived name is non-empty and differs; a difference
\* in type, target port or node port alone leads to no write of an Endpoint
C31_EndpointDiffPredicates ==
    [][\A w \in Workers :
          /\ FoundService(w) =>
                /\ EndpointDiffFires(loc'[w]) <=> pc'[w] \in UpdateServicePlaces
                /\ ~EndpointDiffFires(loc'[w]) => svcStore' = svcStore
          /\ pc[w] \in UpdateServicePlaces /\ pc'[w] # pc[w] =>
                /\ Len(calls'[w]) = Len(calls[w]) + 1
                /\ calls'[w][Len(calls'[w])].op = "Update"
                /\ calls'[w][Len(calls'[w])].kind = "Service"
          /\ pc'[w] # pc[w] /\ pc[w] \notin UpdateServicePlaces \cup {"CreateService"} =>
                svcStore' = svcStore]_vars

\* C31 happens: a pass holds an Endpoint whose type, target port or node
\* port is not the desired one, and has gone on to the status write without
\* a call that writes an Endpoint
C31_Witness ==
    \E w \in Workers :
        /\ pc[w] = "UpdateEvan"
        /\ ConfinedChange(loc[w])
        /\ \A i \in 1 .. Len(calls[w]) :
              calls[w][i].kind = "Service" => calls[w][i].op = "Get"

\* C31 happens: a pass is at the Update that the port predicate fired
C31_WitnessPort ==
    \E w \in Workers :
        /\ pc[w] = "UpdateServicePort"
        /\ loc[w].service.name = loc[w].serviceName
        /\ loc[w].service.ports[1].port # loc[w].servicePort

\* ---------------------------------------------------------------------------
\* C32  Parent event routing.

\* the queue without the note of the last notification
Queue(q) == [f \in DOMAIN q \ {"note"} |-> q[f]]

\* C32: an Added or Updated notification of a parent, also one whose old
\* and new versions are the same, adds the parent's key to the queue; a
\* Deleted notification of a parent leaves the queue and everything but the
\* cache as it was
C32_ParentEventRouting ==
    [][\A n \in DOMAIN evanStore \cup DOMAIN evanCache :
          /\ InformEvan(n) /\ n \in DOMAIN evanStore =>
                workqueue' = Add(workqueue, EvanKey(n))
          /\ ResyncEvan(n) =>
                Queue(workqueue') = Queue(Add(workqueue, EvanKey(n)))
          /\ InformEvan(n) /\ n \notin DOMAIN evanStore =>
                /\ workqueue' = workqueue
                /\ UNCHANGED <<storeVars, deplCache, svcCache, synced, runVars, workerVars>>]_vars

\* C32 happens: a resync of the parent was the last notification and its
\* key is in the queue
C32_Witness ==
    /\ workqueue.note = <<"Evan", "Resync", HandlerParent>>
    /\ workqueue.queue = <<EvanKey(HandlerParent)>>
    /\ evanCache = evanStore

\* C32 happens: the parent is gone from store and cache, and the queue is
\* empty
C32_WitnessDeleted ==
    /\ HandlerParent \notin DOMAIN evanStore \cup DOMAIN evanCache
    /\ workqueue.queue = <<>>

\* ---------------------------------------------------------------------------
\* C33  Resync suppression.

\* the child of that kind and name, as cached and as stored
CachedChild(kind, n) == IF kind = "Deployment" THEN deplCache[n] ELSE svcCache[n]
StoredChild(kind, n) == IF kind = "Deployment" THEN deplStore[n] ELSE svcStore[n]
ChildCached(kind, n) ==
    IF kind = "Deployment" THEN n \in DOMAIN deplCache ELSE n \in DOMAIN svcCache

\* C33: an Updated notification of a Workload or an Endpoint whose old and
\* new versions are the same adds nothing to the queue; one whose versions
\* differ does to the queue what an Added notification of the new object
\* does: it adds the key of the controlling Evan that is in the cache, if
\* there is one
C33_ResyncSuppression ==
    [][\A kind \in {"Deployment", "Service"}, n \in {HandlerChild, RouterChild} :
          /\ ResyncChild(kind, n) => Queue(workqueue') = Queue(workqueue)
          /\ ChildChanged(kind, n) /\ ChildCached(kind, n) =>
                /\ CachedChild(kind, n).resourceVersion # StoredChild(kind, n).resourceVersion
                /\ Queue(workqueue') = Queue(AfterChildEvent(StoredChild(kind, n)))
                /\ Queue(workqueue') = Queue(ChildAddFunc(workqueue, StoredChild(kind, n)))]_vars

\* C33 happens: the resync of a Workload that the cached parent controls
\* was the last notification, and the queue is empty
C33_Witness ==
    /\ workqueue.note = <<"Deployment", "Resync", HandlerChild>>
    /\ workqueue.queue = <<>> /\ workqueue.dirty = {}
    /\ HandlerChild \in DOMAIN deplCache
    /\ OwnerKeys(deplCache[HandlerChild]) = {EvanKey(HandlerParent)}

\* C33 happens: an Updated notification with two versions of the Workload
\* was the last notification, and the parent's key is in the queue
C33_WitnessChanged ==
    /\ workqueue.note = <<"Deployment", "Updated", HandlerChild>>
    /\ workqueue.queue = <<EvanKey(HandlerParent)>>

\* ---------------------------------------------------------------------------
\* C35  Tombstone handling.

\* C35: a Deleted notification that carries a tombstone around the child
\* does to the queue what the child itself would have done, and reports
\* nothing; a payload that is no resource object and no tombstone around one
\* leaves the queue as it was and is reported, nothing else changes
C35_TombstoneHandling ==
    [][/\ \A kind \in {"Deployment", "Service"}, n \in {HandlerChild, RouterChild} :
            ChildDeleted(kind, n, TRUE) =>
               /\ Queue(workqueue') = Queue(AfterChildEvent(CachedChild(kind, n)))
               /\ Queue(workqueue') =
                     Queue(ChildDeleteFunc(workqueue, Object(CachedChild(kind, n))))
               /\ events' = events
       /\ \A obj \in InvalidPayloads :
            InvalidPayload(obj) =>
               /\ Queue(workqueue') = Queue(workqueue)
               /\ \E e \in events' : e.type = "HandleError"
               /\ UNCHANGED <<storeVars, cacheVars, runVars, pc, loc, crashed, calls, book>>]_vars

\* C35 happens: the tombstone of the Workload that the cached parent
\* controlled was the last notification, and the parent's key is in the queue
C35_Witness ==
    /\ workqueue.note = <<"Deployment", "Tombstone", HandlerChild>>
    /\ workqueue.queue = <<EvanKey(HandlerParent)>>
    /\ HandlerChild \notin DOMAIN deplCache

\* C35 happens: a tombstone around something that is no resource object was
\* the last payload, it was reported and the queue is empty
C35_WitnessInvalid ==
    /\ workqueue.note = <<"", "Invalid", "DeletedFinalStateUnknown">>
    /\ [object |-> "", type |-> "HandleError",
        reason |-> "error decoding object tombstone, invalid type"] \in events
    /\ workqueue.queue = <<>> /\ workqueue.dirty = {}

\* ---------------------------------------------------------------------------
\* C34  Mid-pass parent deletion.

\* the pass of worker w did not find its parent at the second lookup
ParentGoneMidPass(w) == Holding(w) /\ loc[w].line = 440

\* C34: a pass whose parent has left the cache after the Workload step and
\* before the second lookup returns success: it issues no call on an
\* Endpoint and no status write, its steps leave the Endpoints and the
\* parents of the store as they were, and the worker forgets the key and
\* does not put it back
C34_MidPassParentDeletion ==
    [][\A w \in Workers :
         ParentGoneMidPass(w)
         => /\ loc[w].err = ""
            /\ \A i \in 1 .. Len(calls[w]) : calls[w][i].kind = "Deployment"
            /\ pc'[w] # pc[w] => svcStore' = svcStore /\ evanStore' = evanStore
            /\ pc[w] \in {"Return", "Done"}
            /\ pc[w] = "Done" => book[w] = "Forget"
            /\ (pc[w] = "Return" /\ pc'[w] = "Done")
               => /\ book'[w] = "Forget"
                  /\ NumRequeues(workqueue', loc[w].obj) = 0
                  /\ workqueue'.queue = workqueue.queue
                  /\ workqueue'.dirty = workqueue.dirty
                  /\ workqueue'.waiting = workqueue.waiting
      ]_vars

\* C34 happens: a pass has created the Workload, then found its parent gone
\* from the cache, has returned and the key is forgotten
C34_Witness ==
    \E w \in Workers :
        /\ ParentGoneMidPass(w)
        /\ pc[w] = "Done"
        /\ book[w] = "Forget"
        /\ Len(calls[w]) = 1 /\ calls[w][1].op = "Create" /\ calls[w][1].ok
        /\ loc[w].name \notin DOMAIN evanCache
        /\ loc[w].deploymentName \in DOMAIN deplStore

\* ---------------------------------------------------------------------------
\* C36  At most one Update per child and pass.

\* the places of the pass's calls that are Updates of that kind
UpdatesOf(w, kind) ==
    {i \in 1 .. Len(calls[w]) : calls[w][i].op = "Update" /\ calls[w][i].kind = kind}

\* C36: in a pass whose Updates the store accepts, at most one Update is
\* issued for the Workload and at most one for the Endpoint, however many
\* predicates held when the pass began
C36_AtMostOneUpdate ==
    \A w \in Workers, kind \in {"Deployment", "Service"} :
        (\A i \in UpdatesOf(w, kind) : calls[w][i].ok) => Cardinality(UpdatesOf(w, kind)) <= 1

\* C36 happens: a pass is through with the Workload after one accepted
\* Update, and the cache still shows the Workload the pass began with, on
\* which both the replicas predicate and the image predicate held
C36_Witness ==
    \E w \in Workers :
        /\ pc[w] = "Refetch"
        /\ Cardinality(UpdatesOf(w, "Deployment")) = 1
        /\ \A i \in UpdatesOf(w, "Deployment") : calls[w][i].ok /\ calls[w][i].changed
        /\ loc[w].deploymentName \in DOMAIN deplCache
        /\ isReplicasChanged(loc[w].updateDeployment.replicas,
                             deplCache[loc[w].deploymentName].replicas)
        /\ isDeploymentImageChanged(loc[w].updateDeployment.containers[1].image,
                                    deplCache[loc[w].deploymentName].containers[1].image)
        /\ deplStore[loc[w].deploymentName].replicas = loc[w].updateDeployment.replicas
        /\ deplStore[loc[w].deploymentName].containers = loc[w].updateDeployment.containers

\* ---------------------------------------------------------------------------
\* C37  Ordering within a pass.

\* the places of the pass's calls that write an object of that kind
WritesOf(w, kind) ==
    {i \in 1 .. Len(calls[w]) :
        calls[w][i].kind = kind /\ calls[w][i].op \in {"Create", "Update"}}

\* C37: the status write is the last store call of its pass and the only
\* one on the parent; its pass has returned at none of the earlier returns
\* (parent not found at either lookup, ownership conflict of either child,
\* failed Create, port zero), had no failed Create and a port that is not
\* zero; every write of a Workload comes before every write of an Endpoint
C37_OrderingWithinPass ==
    \A w \in Workers :
        /\ \A i \in 1 .. Len(calls[w]) :
              calls[w][i].kind = "Evan" =>
                 /\ i = Len(calls[w])
                 /\ calls[w][i].op = "Update"
                 /\ pc[w] \in {"Return", "Done"}
                 /\ loc[w].line \in {507, 510}
                 /\ loc[w].Evan.name = loc[w].name
                 /\ loc[w].servicePort # 0
                 /\ \A j \in 1 .. Len(calls[w]) :
                       calls[w][j].op = "Create" => calls[w][j].ok
        /\ \A i \in WritesOf(w, "Deployment"), j \in WritesOf(w, "Service") : i < j

\* C37 happens: a pass has created the Workload, got and created the
\* Endpoint and written the status, in that order
C37_Witness ==
    \E w \in Workers :
        /\ Len(calls[w]) = 4
        /\ calls[w][1].op = "Create" /\ calls[w][1].kind = "Deployment" /\ calls[w][1].ok
        /\ calls[w][2].op = "Get" /\ calls[w][2].kind = "Service"
        /\ calls[w][3].op = "Create" /\ calls[w][3].kind = "Service" /\ calls[w][3].ok
        /\ calls[w][4].op = "Update" /\ calls[w][4].kind = "Evan"
        /\ pc[w] = "Return"

\* ---------------------------------------------------------------------------
\* C38  Stale cache on create.

\* the pass of worker w returned the error of the Workload's Create
CreateRejected(w) == Holding(w) /\ loc[w].line = 391

\* C38: a Create of a Workload whose name the store already holds is
\* refused and leaves the stored Workloads as they were; the pass returns
\* failure with that Create as its only call, its steps write nothing, and
\* the worker puts the key back with AddRateLimited
C38_StaleCacheOnCreate ==
    [][\A w \in Workers :
          /\ /\ pc[w] = "CreateDeployment" /\ pc'[w] # pc[w]
             /\ loc[w].deploymentName \in DOMAIN deplStore
             => /\ deplStore' = deplStore
                /\ pc'[w] = "Return"
                /\ CreateRejected(w)'
          /\ CreateRejected(w) =>
                /\ loc[w].err # ""
                /\ Len(calls[w]) = 1
                /\ calls[w][1].op = "Create" /\ calls[w][1].kind = "Deployment"
                /\ ~calls[w][1].ok
                /\ pc[w] \in {"Return", "Done"}
                /\ pc'[w] # pc[w] =>
                      /\ evanStore' = evanStore /\ deplStore' = deplStore
                      /\ svcStore' = svcStore
                /\ pc[w] = "Done" => book[w] = "AddRateLimited"
                /\ (pc[w] = "Return" /\ pc'[w] = "Done") =>
                      /\ book'[w] = "AddRateLimited"
                      /\ workqueue' = AddRateLimited(workqueue, loc[w].obj)]_vars

\* C38 happens: with no failure of the store and nobody else at work, a
\* pass did not see in the cache the Workload the store holds, its Create was
\* refused and the key is put back
C38_Witness ==
    \E w \in Workers :
        /\ CreateRejected(w)
        /\ pc[w] = "Done"
        /\ book[w] = "AddRateLimited"
        /\ ext = 1 /\ loc[w].name \in DOMAIN evanStore
        /\ loc[w].deploymentName \in DOMAIN deplStore
        /\ loc[w].deploymentName \notin DOMAIN deplCache
        /\ NumRequeues(workqueue, loc[w].obj) >= 1

\* ---------------------------------------------------------------- C39
\* a notification of a child has been delivered by this step
ChildNotified == deplCache' # deplCache \/ svcCache' # svcCache

\* C39: for a parent whose deletionPolicy is Delete, the children the
\* Reconciler created carry no controlling owner reference, no Added, Updated
\* or Deleted notification of such a child changes the queue, and the parent's
\* key enters the queue only with an Added or Updated notification of the
\* parent or when the delay of a failed pass is over; so the deletion or the
\* drift of a child is not reconciled before the parent is notified
C39_UnownedChildEvents ==
    [][/\ \A n \in DOMAIN deplStore : Len(GetControllerOf(deplStore[n])) = 0
       /\ \A n \in DOMAIN svcStore : Len(GetControllerOf(svcStore[n])) = 0
       /\ ChildNotified => workqueue' = workqueue
       /\ (/\ EvanKey(ConvergeParent) \notin workqueue.dirty
           /\ EvanKey(ConvergeParent) \in workqueue'.dirty)
          => \/ /\ evanCache' # evanCache
                /\ ConvergeParent \in DOMAIN evanCache'
             \/ EvanKey(ConvergeParent) \in workqueue.waiting]_vars

\* C39 witness: a Deployment the Reconciler created was deleted by somebody
\* else, the Deleted notification has been delivered, the parent is unchanged
\* in store and cache, and nothing is queued, in flight or waiting
C39_Witness ==
    /\ evanStore[ConvergeParent].spec.deletionPolicy = PolicyDelete
    /\ evanCache = evanStore
    /\ DOMAIN svcStore = {generateServiceName(ConvergeParent, "", 1000)}
    /\ deplStore = <<>> /\ deplCache = <<>>
    /\ svcCache = svcStore
    /\ ext > 0
    /\ workqueue.dirty = {} /\ workqueue.processing = {} /\ workqueue.waiting = {}
    /\ \A w \in Workers : pc[w] \in {"Get", "off"}
    /\ ~crashed

\* C39 witness: the status of an unowned Deployment changed and the Updated
\* notification, whose versions differ, has been delivered with nothing queued
C39_WitnessDrift ==
    /\ DOMAIN deplStore = {generateDeploymentName(ConvergeParent, "", 1000)}
    /\ deplCache = deplStore
    /\ \E n \in DOMAIN deplStore :
          /\ deplStore[n].availableReplicas # evanStore[ConvergeParent].status.availableReplicas
          /\ Len(deplStore[n].ownerReferences) = 0
    /\ evanCache = evanStore
    /\ workqueue.dirty = {} /\ workqueue.processing = {} /\ workqueue.waiting = {}
    /\ \A w \in Workers : pc[w] \in {"Get", "off"}
    /\ ~crashed

\* ---------------------------------------------------------------- C40
\* worker w's step is the lookup of a pass that finds, in the caches, the
\* parent with deletion policy WipeOut and the Workload of the derived name
\* without the parent as its controlling owner
SeesUnownedUnderWipeOut(w) ==
    /\ pc[w] = "Sync" /\ pc'[w] # "Sync"
    /\ ConvergeParent \in DOMAIN evanCache
    /\ loc[w].obj = MetaNamespaceKeyFunc(evanCache[ConvergeParent])
    /\ evanCache[ConvergeParent].spec.deletionPolicy = PolicyWipeOut
    /\ generateDeploymentName(ConvergeParent, "", 1000) \in DOMAIN deplCache
    /\ ~IsControlledBy(deplCache[generateDeploymentName(ConvergeParent, "", 1000)],
                       evanCache[ConvergeParent])

\* the pass of worker w returned the ownership conflict of the Workload
WorkloadConflict(w) == pc[w] \in {"Return", "Done"} /\ loc[w].line = 401

\* C40: once the policy of a parent whose children were created under Delete
\* is WipeOut, a pass that finds the parent and its Workload returns the
\* ownership conflict of the Workload with a Warning event, has issued no
\* Create, no Update and no status write and changes no store, and the worker
\* puts the key back with AddRateLimited, which counts the failure and makes
\* the key wait; this lasts while the Workload has no controlling owner
C40_PolicyChangeConflict ==
    [][\A w \in Workers :
          /\ SeesUnownedUnderWipeOut(w) =>
                /\ WorkloadConflict(w)'
                /\ loc'[w].err # ""
                /\ Warning(loc'[w]) \in events'
          /\ WorkloadConflict(w) =>
                /\ loc[w].err # ""
                /\ Verbs(w) \cap {"Create", "Update", "UpdateStatus", "Delete"} = {}
                /\ pc'[w] # pc[w] =>
                      /\ evanStore' = evanStore /\ deplStore' = deplStore
                      /\ svcStore' = svcStore
                /\ pc[w] = "Done" => book[w] = "AddRateLimited"
                /\ (pc[w] = "Return" /\ pc'[w] = "Done") =>
                      /\ book'[w] = "AddRateLimited"
                      /\ workqueue' = AddRateLimited(workqueue, loc[w].obj)
                      /\ NumRequeues(workqueue', loc[w].obj) >= 1
                      /\ NumRequeues(workqueue', loc[w].obj) >= NumRequeues(workqueue, loc[w].obj)
                      /\ ~workqueue.shuttingDown => loc[w].obj \in workqueue'.waiting]_vars

\* C40 witness: both children were created under Delete and are in store and
\* cache with no owner reference, the policy is WipeOut, and a pass has
\* returned the Workload's conflict for the second time running
C40_Witness ==
    \E w \in Workers :
        /\ WorkloadConflict(w) /\ pc[w] = "Done"
        /\ book[w] = "AddRateLimited"
        /\ NumRequeues(workqueue, loc[w].obj) >= 2
        /\ evanStore[ConvergeParent].spec.deletionPolicy = PolicyWipeOut
        /\ DOMAIN deplStore = {loc[w].deploymentName}
        /\ deplStore[loc[w].deploymentName].ownerReferences = <<>>
        /\ \E n \in DOMAIN svcStore : svcStore[n].ownerReferences = <<>>
        /\ deplCache = deplStore /\ svcCache = svcStore
        /\ evanStore[ConvergeParent].status.availableReplicas = 0

\* C40 witness: after a pass failed with the conflict somebody made the
\* parent the Workload's controlling owner, and the next pass went past the
\* Workload's ownership check
C40_WitnessAdopted ==
    \E w \in Workers :
        /\ pc[w] \in {"Refetch", "GetService"}
        /\ loc[w].Evan.spec.deletionPolicy = PolicyWipeOut
        /\ IsControlledBy(loc[w].deployment, loc[w].Evan)
        /\ Verbs(w) \cap {"Create"} = {}
        /\ NumRequeues(workqueue, loc[w].obj) >= 1

====
